---- MODULE Spec2Model ----
(***************************************************************************)
(* Open Agent Passport (aport-spec): the canonicalizers, the OAP <-> VC    *)
(* codec, Verifiable Presentations, the conformance Ed25519 class, the     *)
(* schema validator and the conformance runner (loading, evaluation, test  *)
(* runs and report) and the CLI, as state machines over bounded inputs.    *)
(*                                                                         *)
(* A JSON value is a pair <<tag, payload>>:                                *)
(*   <<"null", <<>>>>, <<"bool", b>>, <<"num", n>>, <<"str", s>>,           *)
(*   <<"arr", <<v1, ..., vn>>>>, <<"obj", << <<k1, v1>>, ..., <<kn, vn>> >>>> *)
(* and <<"undef", <<>>>> is JavaScript's undefined.  The pairs of an object *)
(* are in the object's property order.                                     *)
(***************************************************************************)
EXTENDS Integers, Sequences, FiniteSets, TLC

VARIABLES
    doc,        \* canonicalizer: the value handed to the canonicalizers
    docAlt,     \* canonicalizer: the same value with its keys in another order
    jcsOut,     \* canonicalizer: <<JCS.canonicalize(doc), JCS.canonicalize(docAlt)>>
    detOut,     \* canonicalizer: the same pair for createDeterministicJson
    oap,        \* codec: the passport or decision handed to the export
    oapKind,    \* codec: "passport" or "decision"
    registryKey,\* codec: the RegistryKey handed to the export
    exported,   \* codec: what the export returned or threw
    vc,         \* codec: the credential in the holder's hands, as received
    call,       \* codec: the last import / verify call, its arguments and outcome
    edMessage,  \* conformance Ed25519: the message bytes to sign
    edKeys,     \* conformance Ed25519: the pair generateTestKeyPair returned
    edSignature,\* conformance Ed25519: the signature text in hand
    edCall,     \* conformance Ed25519: the last verify call and its outcome
    testCase,   \* conformance runner: [packId, passport, context] under evaluation
    clock,      \* conformance runner: Date.now()
    evaluation, \* conformance runner: what evaluatePolicy returned for testCase
    subject,    \* validator: [kind, packId, doc], the document handed to a validator
    priorStatus,\* validator: the status the passport had before its last change
    validation, \* validator: <<>> or <<what the validator returned>>
    files,      \* CLI: the content of the input, key, vc and output files
    cliRun,     \* CLI: the last command, its --type and its exit code
    vp,         \* presentation: the Verifiable Presentation in the verifier's hands
    vpOptions,  \* presentation: the PresentationOptions it was created with
    vpCall,     \* presentation: the last verifyVerifiablePresentation call and its outcome
    suite,      \* conformance runner: the loaded test cases, in order
    results,    \* conformance runner: the TestResults runTests has pushed so far
    run,        \* conformance runner: the runTests call, its start and its evaluations
    report,     \* conformance runner: the ConformanceReport of generateReport
    packDir,    \* loader: the file names a pack directory lists, per subdirectory
    loaded      \* loader: the test cases loadPackTestCases returned

canonVars == <<doc, docAlt, jcsOut, detOut>>
codecVars == <<oap, oapKind, registryKey, exported, vc, call>>
edVars == <<edMessage, edKeys, edSignature, edCall>>
policyVars == <<testCase, clock, evaluation>>
validatorVars == <<subject, priorStatus, validation>>
cliVars == <<files, cliRun>>
vpVars == <<vp, vpOptions, vpCall>>
runnerVars == <<suite, results, run, report>>
loaderVars == <<packDir, loaded>>
vars == <<doc, docAlt, jcsOut, detOut, oap, oapKind, registryKey, exported, vc, call,
          edMessage, edKeys, edSignature, edCall, testCase, clock, evaluation,
          subject, priorStatus, validation, files, cliRun,
          vp, vpOptions, vpCall, suite, results, run, report, packDir, loaded>>
notCanon == <<codecVars, edVars, policyVars, validatorVars, cliVars,
    vpVars, runnerVars, loaderVars>>
notCodec == <<canonVars, edVars, policyVars, validatorVars, cliVars,
    vpVars, runnerVars, loaderVars>>
notEd == <<canonVars, codecVars, policyVars, validatorVars, cliVars,
    vpVars, runnerVars, loaderVars>>
notPolicy == <<canonVars, codecVars, edVars, validatorVars, cliVars,
    vpVars, runnerVars, loaderVars>>
notValidator == <<canonVars, codecVars, edVars, policyVars, cliVars,
    vpVars, runnerVars, loaderVars>>
notCli == <<canonVars, codecVars, edVars, policyVars, validatorVars,
    vpVars, runnerVars, loaderVars>>
notVp == <<canonVars, codecVars, edVars, policyVars, validatorVars, cliVars,
    runnerVars, loaderVars>>
notRunner == <<canonVars, codecVars, edVars, testCase, evaluation, validatorVars, cliVars,
    vpVars, loaderVars>>
notLoader == <<canonVars, codecVars, edVars, policyVars, validatorVars, cliVars,
    vpVars, runnerVars>>

None == <<"none">>
NoCall == [op |-> "none"]
NoKeys == [publicKey |-> None, privateKey |-> None]
NoCase == [packId |-> "none"]
NoEvaluation == [valid |-> FALSE]
NoSubject == [kind |-> "none"]
NoRun == [started |-> FALSE]
NoReport == [timestamp |-> "none"]
NoPack == [packId |-> "none"]
NoLoad == [done |-> FALSE]
NoFiles == [name \in {"input", "key", "vc", "output"} |-> None]

(***************************************************************************)
(* JSON values                                                             *)
(***************************************************************************)
Undefined == <<"undef", <<>>>>
Null == <<"null", <<>>>>
Bool(b) == <<"bool", b>>
Num(n) == <<"num", n>>
Str(s) == <<"str", s>>
Arr(elems) == <<"arr", elems>>
Obj(pairs) == <<"obj", pairs>>

TypeOf(v) == v[1]
IsObject(v) == TypeOf(v) = "obj"

Range(s) == {s[i] : i \in 1..Len(s)}
Keys(o) == [i \in 1..Len(o[2]) |-> o[2][i][1]]
KeySet(o) == Range(Keys(o))
Has(o, k) == IsObject(o) /\ k \in KeySet(o)
\* o[k]: the property's value, undefined when o has no such property
Get(o, k) ==
    IF Has(o, k)
    THEN LET i == CHOOSE j \in 1..Len(o[2]) : o[2][j][1] = k IN o[2][i][2]
    ELSE Undefined

(***************************************************************************)
(* Key order.  Array.prototype.sort() without a comparator orders strings  *)
(* by UTF-16 code units; KeyTable lists the key names of the model in that *)
(* order.  A JavaScript object enumerates its array-index keys first, in   *)
(* ascending numeric order, then its other keys in insertion order.        *)
(***************************************************************************)
KeyTable == <<
    "10", "2", "@context", "EUR", "USD", "a", "agent_id", "allow",
    "allow_pii", "allowed_collections", "amount", "assurance_level", "b",
    "branch", "capabilities", "challenge", "code", "collection", "created", "created_at",
    "credentialSubject", "currency", "currency_limits", "daily_cap",
    "data.export", "decision_id", "decision_token", "did", "domain", "estimated_rows",
    "expirationDate", "expires_at", "expires_in", "holder", "id", "include_pii",
    "issuanceDate", "issuer", "jws", "kid", "kind", "limits", "max_per_tx",
    "max_rows", "message", "metadata", "name", "never_expires", "order_id",
    "owner_id", "owner_type", "parent_agent_id", "passport_digest",
    "passport_id", "payments.refund", "policy_id", "proof", "proofPurpose",
    "reasons", "region", "regions", "remaining_daily_cap", "repo",
    "signature", "spec_version", "status", "tag", "type", "updated_at",
    "verifiableCredential", "verificationMethod",
    "version" >>
KeyRank == [k \in {KeyTable[i] : i \in 1..Len(KeyTable)} |->
                CHOOSE i \in 1..Len(KeyTable) : KeyTable[i] = k]
\* the keys that are array indices, with their numeric values
IndexValue == [k \in {"10", "2"} |-> IF k = "10" THEN 10 ELSE 2]
IndexKeys == DOMAIN IndexValue

RECURSIVE SortBy(_, _)
\* the sequence s sorted by ascending rank[_], by selection of the least element
SortBy(s, rank) ==
    IF s = <<>> THEN <<>>
    ELSE LET i == CHOOSE j \in 1..Len(s) : \A l \in 1..Len(s) : rank[s[j]] <= rank[s[l]]
         IN <<s[i]>> \o SortBy(SubSeq(s, 1, i - 1) \o SubSeq(s, i + 1, Len(s)), rank)

\* Object.keys(obj).sort()
SortKeysUnsorted(keys) == keys
SortKeys(keys) == SortBy(keys, KeyRank)

\* the property order of an object into which `keys` were inserted in this order
OwnPropertyKeys(keys) ==
    SortBy(SelectSeq(keys, LAMBDA k : k \in IndexKeys), IndexValue)
        \o SelectSeq(keys, LAMBDA k : k \notin IndexKeys)

RECURSIVE Join(_, _)
\* Array.prototype.join
Join(parts, sep) ==
    IF parts = <<>> THEN ""
    ELSE IF Len(parts) = 1 THEN parts[1]
    ELSE parts[1] \o sep \o Join(Tail(parts), sep)

\* JSON.stringify of a string or key without characters that need escaping
Quote(s) == "\"" \o s \o "\""
\* Number.prototype.toString of an integer
NumberToString(n) == ToString(n)

(***************************************************************************)
(* JCS.canonicalize (conformance/src/jcs.ts)                               *)
(***************************************************************************)
Throws == "<throws>"

RECURSIVE canonicalizeValue(_)
canonicalizeObject(obj) ==
    LET keys == SortKeys(Keys(obj))
        pairs == [i \in 1..Len(keys) |->
                    Quote(keys[i]) \o ":" \o canonicalizeValue(Get(obj, keys[i]))]
    IN "{" \o Join(pairs, ",") \o "}"

canonicalizeArray(arr) ==
    LET elements == [i \in 1..Len(arr[2]) |-> canonicalizeValue(arr[2][i])]
    IN "[" \o Join(elements, ",") \o "]"

canonicalizeValue(value) ==
    CASE TypeOf(value) = "null" -> "null"
      [] TypeOf(value) = "bool" -> IF value[2] THEN "true" ELSE "false"
      [] TypeOf(value) = "num" -> NumberToString(value[2])
      [] TypeOf(value) = "str" -> Quote(value[2])
      [] TypeOf(value) = "arr" -> canonicalizeArray(value)
      [] TypeOf(value) = "obj" -> canonicalizeObject(value)
      [] OTHER -> Throws

canonicalize(obj) == canonicalizeValue(obj)

(***************************************************************************)
(* createDeterministicJson / canonicalizeJsonLd (crypto-utils)             *)
(* JSON.stringify with a replacer that rebuilds every non-array object     *)
(* with its keys inserted in sorted order.                                 *)
(***************************************************************************)
RECURSIVE stringifyValue(_)
\* the replacer's rebuilt object, serialised in its own property order;
\* JSON.stringify leaves out a property whose value is undefined
stringifyObject(obj) ==
    LET keys == OwnPropertyKeys(SortKeys(Keys(obj)))
        kept == SelectSeq(keys, LAMBDA k : Get(obj, k) # Undefined)
        pairs == [i \in 1..Len(kept) |->
                    Quote(kept[i]) \o ":" \o stringifyValue(Get(obj, kept[i]))]
    IN "{" \o Join(pairs, ",") \o "}"

stringifyValue(value) ==
    CASE TypeOf(value) = "null" -> "null"
      [] TypeOf(value) = "undef" -> "null"     \* an undefined array element
      [] TypeOf(value) = "bool" -> IF value[2] THEN "true" ELSE "false"
      [] TypeOf(value) = "num" -> NumberToString(value[2])
      [] TypeOf(value) = "str" -> Quote(value[2])
      [] TypeOf(value) = "arr" ->
            "[" \o Join([i \in 1..Len(value[2]) |-> stringifyValue(value[2][i])], ",") \o "]"
      [] TypeOf(value) = "obj" -> stringifyObject(value)
      [] TypeOf(value) = "jws" -> Quote(ToString(value[2]))   \* a compact JWS string

createDeterministicJson(document) == stringifyValue(document)
canonicalizeJsonLd(document) == createDeterministicJson(document)

(***************************************************************************)
(* JavaScript helpers                                                      *)
(***************************************************************************)
\* ToBoolean
Truthy(v) ==
    CASE TypeOf(v) \in {"undef", "null"} -> FALSE
      [] TypeOf(v) = "bool" -> v[2]
      [] TypeOf(v) = "num" -> v[2] # 0
      [] TypeOf(v) = "str" -> v[2] # ""
      [] OTHER -> TRUE

\* an object literal: the listed properties, in order
Literal(pairs) == Obj(pairs)
\* the object as JSON carries it: properties whose value is undefined left out
Defined(o) == Obj(SelectSeq(o[2], LAMBDA p : p[2] # Undefined))
\* { ...o, [k]: v }
With(o, k, v) ==
    IF Has(o, k)
    THEN Obj([i \in 1..Len(o[2]) |-> IF o[2][i][1] = k THEN <<k, v>> ELSE o[2][i]])
    ELSE Obj(Append(o[2], <<k, v>>))
Without(o, k) == Obj(SelectSeq(o[2], LAMBDA p : p[1] # k))
\* the properties of an object as a set: equality of fields and values
Fields(o) == Range(Defined(o)[2])

Ok(x) == <<"ok", x>>
Err(m) == <<"error", m>>
IsOk(r) == r[1] = "ok"

(***************************************************************************)
(* Keys and Ed25519 (crypto-utils: signEd25519, verifyEd25519 over         *)
(* @noble/ed25519).  A signature is the triple of the signing key, and the *)
(* message; a key argument is given by the bytes the decoders              *)
(* privateKeyToBytes / publicKeyToBytes make of it.                        *)
(***************************************************************************)
KeyIds == {"k1", "k2"}
PrivateKey(k) == <<"priv", k>>
PublicKey(k) == <<"pub", k>>
JunkBytes == <<"junk">>

privateKeyToBytes(privateKey) == privateKey
publicKeyToBytes(publicKey) == publicKey

\* signAsync(message, keyBytes)
signEd25519(message, privateKey) == <<"sig", privateKeyToBytes(privateKey)[2], message>>

verifyEd25519(message, signature, publicKey) ==
    LET publicKeyBytes == publicKeyToBytes(publicKey)
    IN /\ publicKeyBytes[1] = "pub"
       /\ signature[1] = "sig"
       /\ signature = <<"sig", publicKeyBytes[2], message>>

\* base64url text, given by the bytes it encodes
bytesToBase64url(bytes) == <<"b64u", bytes>>
base64urlToBytes(text) == IF text[1] = "b64u" THEN text[2] ELSE JunkBytes
EmptyPart == <<"empty">>

(***************************************************************************)
(* The OAP <-> VC codec (oap/vc/tools/src/index.ts)                        *)
(***************************************************************************)
isValidVC(v) ==
    /\ Truthy(v)
    /\ Truthy(Get(v, "@context"))
    /\ Truthy(Get(v, "type"))
    /\ Truthy(Get(v, "credentialSubject"))
    /\ Truthy(Get(v, "issuer"))
    /\ Truthy(Get(v, "issuanceDate"))
    /\ Truthy(Get(v, "proof"))

PassportRequired ==
    <<"agent_id", "kind", "spec_version", "owner_id", "owner_type", "assurance_level",
      "status", "capabilities", "limits", "regions", "created_at", "updated_at", "version">>
isValidOAPPassport(passport) ==
    /\ Truthy(passport)
    /\ \A i \in 1..Len(PassportRequired) : Truthy(Get(passport, PassportRequired[i]))

DecisionRequiredTruthy ==
    <<"decision_id", "policy_id", "agent_id", "owner_id", "assurance_level", "reasons",
      "created_at", "expires_in", "passport_digest", "signature", "kid">>
isValidOAPDecision(decision) ==
    /\ Truthy(decision)
    /\ \A i \in 1..Len(DecisionRequiredTruthy) : Truthy(Get(decision, DecisionRequiredTruthy[i]))
    /\ TypeOf(Get(decision, "allow")) = "bool"

\* new Date(new Date(t).getTime() + seconds * 1000).toISOString(), for the
\* instants used
DatePlus ==
    (<<"2024-01-01T00:00:00Z", 365 * 24 * 60 * 60>> :> "2024-12-31T00:00:00.000Z")
    @@ (<<"2024-01-15T10:30:00Z", 3600>> :> "2024-01-15T11:30:00.000Z")
    @@ (<<"2024-01-15T10:30:00Z", 60>> :> "2024-01-15T10:31:00.000Z")
    @@ (<<"2024-01-15T10:30:00Z", 1>> :> "2024-01-15T10:30:01.000Z")

computeExpirationDate(passport) ==
    IF Truthy(Get(passport, "expires_at")) THEN Get(passport, "expires_at")
    ELSE IF Truthy(Get(passport, "never_expires")) THEN Str("2999-12-31T23:59:59.000Z")
    ELSE Str(DatePlus[<<Get(passport, "created_at")[2], 365 * 24 * 60 * 60>>])

VcContext ==
    Arr(<<Str("https://www.w3.org/2018/credentials/v1"),
          Str("https://raw.githubusercontent.com/aporthq/aport-spec/refs/heads/main/oap/vc/context-oap-v1.jsonld")>>)

\* the credential without its proof, rebuilt field by field by signer and verifier
credentialWithoutProof(v) ==
    Literal(<< <<"@context", Get(v, "@context")>>, <<"type", Get(v, "type")>>,
               <<"credentialSubject", Get(v, "credentialSubject")>>,
               <<"issuer", Get(v, "issuer")>>, <<"issuanceDate", Get(v, "issuanceDate")>>,
               <<"expirationDate", Get(v, "expirationDate")>> >>)

JwsHeader == <<"header", "EdDSA">>
Jws(parts) == <<"jws", parts>>

\* signCredential; Err when the registry key has no private key
signCredential(v, key) ==
    IF key.privateKey = Undefined
    THEN Err("REGISTRY_PRIVATE_KEY is required for VC signing")
    ELSE LET canonicalMessage == canonicalizeJsonLd(credentialWithoutProof(v))
             signatureBytes == signEd25519(canonicalMessage, key.privateKey)
             headerB64 == bytesToBase64url(JwsHeader)
             signatureB64 == bytesToBase64url(signatureBytes)
         IN Ok(Jws(<<headerB64, EmptyPart, signatureB64>>))

\* verifyCredentialSignature: Ok(TRUE), Ok(FALSE), or Err when it throws
verifyCredentialSignature(v, publicKey) ==
    IF TypeOf(v) \in {"null", "undef"}
    THEN Err("TypeError")                        \* vc.proof is read outside the try
    ELSE IF ~Truthy(Get(v, "proof")) \/ ~Truthy(Get(Get(v, "proof"), "jws"))
    THEN Ok(FALSE)
    ELSE LET jws == Get(Get(v, "proof"), "jws")
             canonicalMessage == canonicalizeJsonLd(credentialWithoutProof(v))
         IN IF TypeOf(jws) # "jws" THEN Ok(FALSE)     \* jws.split is not a function
            ELSE IF Len(jws[2]) # 3 THEN Ok(FALSE)
            ELSE IF publicKey = Undefined THEN Ok(FALSE) \* "Public key is required"
            ELSE Ok(verifyEd25519(canonicalMessage, base64urlToBytes(jws[2][3]), publicKey))

\* string tables of issuer.replace(/^https?:\/\//, "").replace(/\/$/, "")
BaseUrl ==
    ("https://aport.io" :> "aport.io") @@ ("https://api.aport.dev/" :> "api.aport.dev")

PassportSubjectKeys ==
    <<"agent_id", "kind", "spec_version", "parent_agent_id", "owner_id", "owner_type",
      "assurance_level", "status", "capabilities", "limits", "regions", "metadata",
      "created_at", "updated_at", "version">>

exportPassportToVC(passport, key) ==
    IF ~isValidOAPPassport(passport) THEN Err("Invalid OAP passport structure")
    ELSE
    LET did == IF Truthy(Get(passport, "did")) THEN Get(passport, "did")
               ELSE Str("did:web:" \o BaseUrl[key.issuer] \o ":api:agents:"
                            \o Get(passport, "agent_id")[2])
        issuer == did
        verificationMethod == Str(did[2] \o "#key-1")
        vcWithoutProof ==
            Literal(<< <<"@context", VcContext>>,
                       <<"type", Arr(<<Str("VerifiableCredential"), Str("OAPPassportCredential")>>)>>,
                       <<"credentialSubject",
                         Literal([i \in 1..Len(PassportSubjectKeys) |->
                                    <<PassportSubjectKeys[i], Get(passport, PassportSubjectKeys[i])>>]
                                 \o << <<"did", did>> >>)>>,
                       <<"issuer", issuer>>,
                       <<"issuanceDate", Get(passport, "created_at")>>,
                       <<"expirationDate", computeExpirationDate(passport)>> >>)
        jws == signCredential(vcWithoutProof, key)
    IN IF ~IsOk(jws) THEN jws
       ELSE Ok(With(vcWithoutProof, "proof",
                Literal(<< <<"type", Str("Ed25519Signature2020")>>,
                           <<"created", Get(passport, "created_at")>>,
                           <<"verificationMethod", verificationMethod>>,
                           <<"proofPurpose", Str("assertionMethod")>>,
                           <<"jws", jws[2]>> >>)))

DecisionSubjectKeysNoToken ==
    <<"decision_id", "policy_id", "agent_id", "owner_id", "assurance_level", "allow",
      "reasons", "created_at", "expires_in", "passport_digest", "signature", "kid",
      "remaining_daily_cap">>
DecisionSubjectKeys ==
    <<"decision_id", "policy_id", "agent_id", "owner_id", "assurance_level", "allow",
      "reasons", "created_at", "expires_in", "passport_digest", "signature", "kid",
      "decision_token", "remaining_daily_cap">>

exportDecisionToVC(decision, key) ==
    IF ~isValidOAPDecision(decision) THEN Err("Invalid OAP decision structure")
    ELSE
    LET vcWithoutProof ==
            Literal(<< <<"@context", VcContext>>,
                       <<"type", Arr(<<Str("VerifiableCredential"), Str("OAPDecisionReceipt")>>)>>,
                       <<"credentialSubject",
                         Literal([i \in 1..Len(DecisionSubjectKeys) |->
                                    <<DecisionSubjectKeys[i], Get(decision, DecisionSubjectKeys[i])>>])>>,
                       <<"issuer", Str(key.issuer)>>,
                       <<"issuanceDate", Get(decision, "created_at")>>,
                       <<"expirationDate",
                         Str(DatePlus[<<Get(decision, "created_at")[2],
                                        Get(decision, "expires_in")[2]>>])>> >>)
        jws == signCredential(vcWithoutProof, key)
    IN IF ~IsOk(jws) THEN jws
       ELSE Ok(With(vcWithoutProof, "proof",
                Literal(<< <<"type", Str("Ed25519Signature2020")>>,
                           <<"created", Get(decision, "created_at")>>,
                           <<"verificationMethod",
                             Str(key.issuer \o "/.well-known/oap/keys.json#" \o key.kid)>>,
                           <<"proofPurpose", Str("assertionMethod")>>,
                           <<"jws", jws[2]>> >>)))

importVCToPassportUnchecked(v, publicKey) ==
    IF ~isValidVC(v) THEN Err("Invalid VC structure")
    ELSE IF ~isValidOAPPassport(Get(v, "credentialSubject"))
    THEN Err("Invalid OAP passport structure")
    ELSE Ok(Get(v, "credentialSubject"))
importVCToPassport(v, publicKey) ==
    IF ~isValidVC(v) THEN Err("Invalid VC structure")
    ELSE IF verifyCredentialSignature(v, publicKey) # Ok(TRUE) THEN Err("Invalid VC signature")
    ELSE IF ~isValidOAPPassport(Get(v, "credentialSubject"))
    THEN Err("Invalid OAP passport structure")
    ELSE Ok(Get(v, "credentialSubject"))

importVCToDecision(v, publicKey) ==
    IF ~isValidVC(v) THEN Err("Invalid VC structure")
    ELSE IF verifyCredentialSignature(v, publicKey) # Ok(TRUE) THEN Err("Invalid VC signature")
    ELSE IF ~isValidOAPDecision(Get(v, "credentialSubject"))
    THEN Err("Invalid OAP decision structure")
    ELSE Ok(Get(v, "credentialSubject"))

(***************************************************************************)
(* Codec inputs: the sample passport and decision of the tool's test       *)
(* suite, with optional fields present or absent, one enum value outside   *)
(* its set and one required field missing.                                 *)
(***************************************************************************)
SampleCapabilities ==
    Arr(<<Literal(<< <<"id", Str("payments.refund")>> >>),
          Literal(<< <<"id", Str("data.export")>> >>)>>)
SampleLimits ==
    Literal(<< <<"payments.refund",
                 Literal(<< <<"currency_limits",
                    Literal(<< <<"USD", Literal(<< <<"max_per_tx", Num(5000)>>,
                                                   <<"daily_cap", Num(50000)>> >>)>> >>)>> >>)>> >>)

Passport(agentId, kind, parent, did, expiresAt, neverExpires) ==
    Defined(Literal(<<
        <<"agent_id", agentId>>, <<"kind", kind>>, <<"spec_version", Str("oap/1.0")>>,
        <<"parent_agent_id", parent>>,
        <<"owner_id", Str("org_12345678")>>, <<"owner_type", Str("org")>>,
        <<"assurance_level", Str("L2")>>, <<"status", Str("active")>>,
        <<"capabilities", SampleCapabilities>>, <<"limits", SampleLimits>>,
        <<"regions", Arr(<<Str("US"), Str("CA")>>)>>,
        <<"metadata", Literal(<< <<"name", Str("Customer Support AI")>> >>)>>,
        <<"created_at", Str("2024-01-01T00:00:00Z")>>,
        <<"updated_at", Str("2024-01-15T10:30:00Z")>>,
        <<"version", Str("1.0.0")>>,
        <<"did", did>>, <<"expires_at", expiresAt>>, <<"never_expires", neverExpires>> >>))

AgentId == Str("550e8400-e29b-41d4-a716-446655440000")
Passports ==
    { Passport(AgentId, kind, parent, did, expiresAt, Undefined) :
        kind \in {Str("template"), Str("instance"), Str("robot")},
        parent \in {Undefined, Str("550e8400-e29b-41d4-a716-446655440009")},
        did \in {Undefined, Str("did:web:example.com:agents:7")},
        expiresAt \in {Undefined, Str("2025-06-30T00:00:00Z")} }
    \cup { Passport(AgentId, Str("template"), Undefined, Undefined, Undefined, Bool(TRUE)),
           Passport(Undefined, Str("template"), Undefined, Undefined, Undefined, Undefined) }

Decision(level, allow, expiresIn, token, cap) ==
    Defined(Literal(<<
        <<"decision_id", Str("550e8400-e29b-41d4-a716-446655440002")>>,
        <<"policy_id", Str("payments.refund.v1")>>,
        <<"agent_id", AgentId>>, <<"owner_id", Str("org_12345678")>>,
        <<"assurance_level", level>>, <<"allow", allow>>,
        <<"reasons", Arr(<<Literal(<< <<"code", Str("oap.allowed")>>,
                                      <<"message", Str("Transaction within limits")>> >>)>>)>>,
        <<"created_at", Str("2024-01-15T10:30:00Z")>>, <<"expires_in", expiresIn>>,
        <<"passport_digest", Str("sha256:abcd")>>, <<"signature", Str("ed25519:c2ln")>>,
        <<"kid", Str("oap:registry:key-2025-01")>>,
        <<"decision_token", token>>, <<"remaining_daily_cap", cap>> >>))

Decisions ==
    { Decision(level, allow, expiresIn, token, cap) :
        level \in {Str("L2"), Str("L9")},
        allow \in {Bool(TRUE), Bool(FALSE), Undefined},
        expiresIn \in {Num(3600), Num(60), Num(0)},
        token \in {Undefined, Str("eyJhbGciOiJFUzI1NiJ9")},
        cap \in {Undefined, Literal(<< <<"USD", Num(45000)>> >>)} }

RegistryKeys ==
    { [issuer |-> "https://aport.io", kid |-> "ap_registry_ed25519_2024", privateKey |-> pk] :
        pk \in {PrivateKey(k) : k \in KeyIds} \cup {Undefined} }
    \cup { [issuer |-> "https://api.aport.dev/", kid |-> "key-2025-01",
            privateKey |-> PrivateKey("k1")] }

\* a registry key that can sign
SigningKey ==
    [issuer |-> "https://aport.io", kid |-> "ap_registry_ed25519_2024",
     privateKey |-> PrivateKey("k1")]

\* the publicKey argument of import and verify: absent, a key, or undecodable text
PublicKeyArgs == {Undefined, JunkBytes} \cup {PublicKey(k) : k \in KeyIds}

CodecInit ==
    /\ \/ oapKind = "passport" /\ oap \in Passports
       \/ oapKind = "decision" /\ oap \in Decisions
    /\ registryKey \in RegistryKeys
    /\ exported = None
    /\ vc = None
    /\ call = NoCall
    /\ doc = None /\ docAlt = None /\ jcsOut = None /\ detOut = None
    /\ edMessage = None /\ edKeys = NoKeys /\ edSignature = None /\ edCall = NoCall
    /\ testCase = NoCase /\ clock = 0 /\ evaluation = NoEvaluation
    /\ subject = NoSubject /\ priorStatus = "none" /\ validation = <<>>
    /\ files = NoFiles /\ cliRun = NoCall
    /\ vp = None /\ vpOptions = NoCall /\ vpCall = NoCall
    /\ suite = <<>> /\ results = <<>> /\ run = NoRun /\ report = NoReport
    /\ packDir = NoPack /\ loaded = NoLoad

Export ==
    /\ exported = None
    /\ exported' = IF oapKind = "passport" THEN exportPassportToVC(oap, registryKey)
                   ELSE exportDecisionToVC(oap, registryKey)
    /\ vc' = IF IsOk(exported') THEN exported'[2] ELSE None
    /\ UNCHANGED <<oap, oapKind, registryKey, call>>
    /\ UNCHANGED notCodec

Received == exported # None /\ IsOk(exported) /\ vc = exported[2] /\ call = NoCall
SetJws(v, jws) == With(v, "proof", With(Get(v, "proof"), "jws", jws))
JwsParts(v) == Get(Get(v, "proof"), "jws")[2]

\* what may happen to a credential between export and import
TamperSubject ==
    /\ Received
    /\ \E owner \in {Str("org_attacker")} :
         vc' = With(vc, "credentialSubject", With(Get(vc, "credentialSubject"), "owner_id", owner))
    /\ UNCHANGED <<oap, oapKind, registryKey, exported, call>>
    /\ UNCHANGED notCodec
TamperHeader ==
    /\ Received
    /\ vc' = SetJws(vc, Jws(<<bytesToBase64url(<<"header", "none">>),
                               JwsParts(vc)[2], JwsParts(vc)[3]>>))
    /\ UNCHANGED <<oap, oapKind, registryKey, exported, call>>
    /\ UNCHANGED notCodec
TamperSignature ==
    /\ Received
    /\ \E sig \in {JunkBytes, signEd25519("{}", PrivateKey("k1"))} :
         vc' = SetJws(vc, Jws(<<JwsParts(vc)[1], JwsParts(vc)[2], bytesToBase64url(sig)>>))
    /\ UNCHANGED <<oap, oapKind, registryKey, exported, call>>
    /\ UNCHANGED notCodec
MalformJws ==
    /\ Received
    /\ \E jws \in {Jws(<<JwsParts(vc)[1], JwsParts(vc)[3]>>), Num(5), Str(""), Undefined} :
         vc' = SetJws(vc, jws)
    /\ UNCHANGED <<oap, oapKind, registryKey, exported, call>>
    /\ UNCHANGED notCodec
DropField ==
    /\ Received
    /\ \E k \in {"proof", "issuer"} : vc' = Without(vc, k)
    /\ UNCHANGED <<oap, oapKind, registryKey, exported, call>>
    /\ UNCHANGED notCodec

Import ==
    /\ vc # None /\ call = NoCall
    /\ \E publicKey \in PublicKeyArgs, op \in {"importVCToPassport", "importVCToDecision"} :
         call' = [op |-> op, vc |-> vc, publicKey |-> publicKey,
                  result |-> IF op = "importVCToPassport"
                             THEN importVCToPassport(vc, publicKey)
                             ELSE importVCToDecision(vc, publicKey)]
    /\ UNCHANGED <<oap, oapKind, registryKey, exported, vc>>
    /\ UNCHANGED notCodec

\* a direct call of verifyCredentialSignature, on the credential or on null
Verify ==
    /\ exported # None /\ call = NoCall
    /\ \E publicKey \in PublicKeyArgs, v \in {vc, Null} \ {None} :
         call' = [op |-> "verifyCredentialSignature", vc |-> v, publicKey |-> publicKey,
                  result |-> verifyCredentialSignature(v, publicKey)]
    /\ UNCHANGED <<oap, oapKind, registryKey, exported, vc>>
    /\ UNCHANGED notCodec

CodecNext ==
    \/ Export \/ TamperSubject \/ TamperHeader \/ TamperSignature \/ MalformJws \/ DropField
    \/ Import \/ Verify

(***************************************************************************)
(* Canonicalizer inputs: objects of up to MaxKeys keys whose values are    *)
(* scalars, nested objects and arrays of nested objects, each together     *)
(* with a reordering of its keys at every depth.                           *)
(***************************************************************************)
MaxKeys == 2

\* a property order a JavaScript object can have
JsKeyOrder(keys) == OwnPropertyKeys(keys) = keys

Perms(n) == {p \in [1..n -> 1..n] : \A i, j \in 1..n : i # j => p[i] # p[j]}

NestedObjs ==
    { Obj(<< <<"a", Num(-7)>>, <<"b", Str("x")>> >>),
      Obj(<< <<"b", Str("x")>>, <<"a", Num(-7)>> >>) }
DocValues == NestedObjs \cup {Arr(<<o, Bool(TRUE)>>) : o \in NestedObjs}

DocKeys == {"10", "2", "a", "b"}
KeySeqs == {ks \in UNION {[1..n -> DocKeys] : n \in 0..MaxKeys} :
                /\ \A i, j \in 1..Len(ks) : i # j => ks[i] # ks[j]
                /\ JsKeyOrder(ks)}
Docs == UNION {{Obj([i \in 1..Len(ks) |-> <<ks[i], vs[i]>>]) : vs \in [1..Len(ks) -> DocValues]}
                : ks \in KeySeqs}

RECURSIVE Reorderings(_)
\* the values equal to v up to the order of object keys at every depth
Reorderings(v) ==
    CASE TypeOf(v) = "obj" ->
            LET n == Len(v[2])
                U == UNION {Reorderings(v[2][i][2]) : i \in 1..n}
            IN { Obj([i \in 1..n |-> <<v[2][p[i]][1], w[i]>>]) :
                    <<p, w>> \in {pw \in Perms(n) \X [1..n -> U] :
                        /\ \A i \in 1..n : pw[2][i] \in Reorderings(v[2][pw[1][i]][2])
                        /\ JsKeyOrder([i \in 1..n |-> v[2][pw[1][i]][1]])} }
      [] TypeOf(v) = "arr" ->
            LET n == Len(v[2])
                U == UNION {Reorderings(v[2][i]) : i \in 1..n}
            IN { Arr(w) : w \in {x \in [1..n -> U] : \A i \in 1..n : x[i] \in Reorderings(v[2][i])} }
      [] OTHER -> {v}

CanonInit ==
    /\ doc \in Docs
    /\ docAlt \in Reorderings(doc)
    /\ jcsOut = None
    /\ detOut = None
    /\ oap = None /\ oapKind = "none" /\ registryKey = None
    /\ exported = None /\ vc = None /\ call = NoCall
    /\ edMessage = None /\ edKeys = NoKeys /\ edSignature = None /\ edCall = NoCall
    /\ testCase = NoCase /\ clock = 0 /\ evaluation = NoEvaluation
    /\ subject = NoSubject /\ priorStatus = "none" /\ validation = <<>>
    /\ files = NoFiles /\ cliRun = NoCall
    /\ vp = None /\ vpOptions = NoCall /\ vpCall = NoCall
    /\ suite = <<>> /\ results = <<>> /\ run = NoRun /\ report = NoReport
    /\ packDir = NoPack /\ loaded = NoLoad

\* jcs.canonicalize(doc) and jcs.canonicalize(docAlt)
RunJCS ==
    /\ jcsOut = None
    /\ jcsOut' = <<canonicalize(doc), canonicalize(docAlt)>>
    /\ UNCHANGED <<doc, docAlt, detOut>>
    /\ UNCHANGED notCanon

\* canonicalizeJsonLd(doc) and canonicalizeJsonLd(docAlt)
RunDeterministicJson ==
    /\ detOut = None
    /\ detOut' = <<canonicalizeJsonLd(doc), canonicalizeJsonLd(docAlt)>>
    /\ UNCHANGED <<doc, docAlt, jcsOut>>
    /\ UNCHANGED notCanon

CanonNext == RunJCS \/ RunDeterministicJson
SpecCanon == CanonInit /\ [][CanonNext]_vars

\* C1: two values equal up to the order of object keys at any depth get the
\* same output from JCS.canonicalize, and the same output from
\* createDeterministicJson / canonicalizeJsonLd.
C1_KeyOrderInvariant ==
    /\ jcsOut # None => jcsOut[1] = jcsOut[2]
    /\ detOut # None => detOut[1] = detOut[2]
\* both canonicalizers ran on two values whose property orders differ, at the
\* top level and inside a nested object
C1_Witness ==
    /\ jcsOut # None /\ detOut # None
    /\ doc # docAlt
    /\ Keys(doc) # Keys(docAlt)
    /\ \E k \in KeySet(doc) : IsObject(Get(doc, k)) /\ Get(doc, k) # Get(docAlt, k)

(***************************************************************************)
(* Codec claims                                                            *)
(***************************************************************************)
IsImport == call.op \in {"importVCToPassport", "importVCToDecision"}
\* the call imports the credential exactly as exported, with the public key
\* of the registry key that signed it
RoundTripCall(kind, op) ==
    /\ call.op = op
    /\ oapKind = kind
    /\ IsOk(exported)
    /\ call.vc = exported[2]
    /\ call.publicKey = PublicKey(registryKey.privateKey[2])

\* C2: importVCToPassport(exportPassportToVC(x, k), pub(k)) returns an object
\* with the same fields and the same values as x.
C2_PassportRoundTrip ==
    RoundTripCall("passport", "importVCToPassport")
        => IsOk(call.result) /\ Fields(call.result[2]) = Fields(oap)

\* C3: importVCToDecision(exportDecisionToVC(d, k), pub(k)) returns an object
\* with the same fields and the same values as d.
C3_DecisionRoundTrip ==
    RoundTripCall("decision", "importVCToDecision")
        => IsOk(call.result) /\ Fields(call.result[2]) = Fields(oap)
\* a decision with remaining_daily_cap and without decision_token went round
C3_Witness ==
    /\ RoundTripCall("decision", "importVCToDecision")
    /\ IsOk(call.result)
    /\ Has(oap, "remaining_daily_cap") /\ ~Has(oap, "decision_token")
    /\ Get(oap, "allow") = Bool(FALSE)

AssuranceLevels == {"L0", "L1", "L2", "L3", "L4KYC", "L4FIN"}
EnumIn(o, k, S) == TypeOf(Get(o, k)) = "str" /\ Get(o, k)[2] \in S
PassportEnumsValid(p) ==
    /\ EnumIn(p, "kind", {"template", "instance"})
    /\ EnumIn(p, "owner_type", {"org", "user"})
    /\ EnumIn(p, "assurance_level", AssuranceLevels)
    /\ EnumIn(p, "status", {"draft", "active", "suspended", "revoked"})

\* C5: a credential whose signature verifies and whose credentialSubject lacks
\* a required field or has an enum field outside its set is rejected by the
\* import with its invalid-structure error.
C5_SchemaGate ==
    /\ call.op = "importVCToPassport"
       /\ verifyCredentialSignature(call.vc, call.publicKey) = Ok(TRUE)
       /\ ~(isValidOAPPassport(Get(call.vc, "credentialSubject"))
            /\ PassportEnumsValid(Get(call.vc, "credentialSubject")))
       => call.result = Err("Invalid OAP passport structure")
    /\ call.op = "importVCToDecision"
       /\ verifyCredentialSignature(call.vc, call.publicKey) = Ok(TRUE)
       /\ ~(isValidOAPDecision(Get(call.vc, "credentialSubject"))
            /\ EnumIn(Get(call.vc, "credentialSubject"), "assurance_level", AssuranceLevels))
       => call.result = Err("Invalid OAP decision structure")

\* C6: verifyCredentialSignature returns true or false on every input, a null
\* credential included, and raises nothing.
C6_VerifyNeverThrows ==
    call.op = "verifyCredentialSignature" => call.result \in {Ok(TRUE), Ok(FALSE)}

(***************************************************************************)
(* The conformance Ed25519 class.  A text is                               *)
(* <<"text", prefixed, alphabet, length, content>>: whether it starts with *)
(* "ed25519:", the alphabet of the rest ("hex" and "base64" are base64     *)
(* characters, "other" is not), the length of the rest and what it spells. *)
(***************************************************************************)
Sha256HexLength == 64
SignatureSubstring == 88
SignatureLength == 88
PublicKeyLength == 44

Text(prefixed, alphabet, length, content) == <<"text", prefixed, alphabet, length, content>>
IsText(t) == t[1] = "text"
\* str.replace(/^ed25519:/, "")
StripPrefix(t) == Text(FALSE, t[3], t[4], t[5])
Min(a, b) == IF a <= b THEN a ELSE b

\* btoa(atob(str)) === str; atob throws on a character outside the alphabet
isValidBase64(t) == t[3] \in {"hex", "base64"} /\ t[4] % 4 = 0

\* "ed25519:" + hex(SHA-256(message)).substring(0, 88)
EdSign(message, privateKey) ==
    Text(TRUE, "hex", Min(Sha256HexLength, SignatureSubstring), <<"sha256", message>>)

EdGenerateTestKeyPair ==
    [publicKey |-> Text(TRUE, "base64", 44, "AAAA"),
     privateKey |-> Text(TRUE, "base64", 44, "BBBB")]

EdVerify(message, signature, publicKey) ==
    /\ IsText(signature) /\ IsText(publicKey)
    /\ isValidBase64(StripPrefix(signature))
    /\ isValidBase64(StripPrefix(publicKey))
    /\ StripPrefix(signature)[4] = SignatureLength
    /\ StripPrefix(publicKey)[4] = PublicKeyLength

\* canonicalize throws on a value that is no JSON value; the catch returns false
EdVerifyDecisionSignature(decision, signature, publicKey) ==
    LET canonical == canonicalize(decision)
    IN canonical # Throws /\ EdVerify(canonical, signature, publicKey)

EdDecisions ==
    { Decision(Str("L2"), allow, expiresIn, Undefined, Undefined) :
        allow \in {Bool(TRUE), Bool(FALSE)}, expiresIn \in {Num(3600), Num(60)} }
EdMessages == {canonicalize(Obj(<<>>))} \cup {canonicalize(d) : d \in EdDecisions}
\* signature and key texts a caller may present
EdTexts ==
    { Text(TRUE, "base64", 88, "c2lnbmF0dXJl"), Text(FALSE, "base64", 88, "b3RoZXI"),
      Text(TRUE, "base64", 87, "c2hvcnQ"), Text(TRUE, "other", 88, "!!!!"),
      Text(TRUE, "base64", 44, "a2V5"), Undefined }

EdInit ==
    /\ edMessage \in EdMessages
    /\ edKeys = NoKeys
    /\ edSignature = None
    /\ edCall = NoCall
    /\ doc = None /\ docAlt = None /\ jcsOut = None /\ detOut = None
    /\ oap = None /\ oapKind = "none" /\ registryKey = None
    /\ exported = None /\ vc = None /\ call = NoCall
    /\ testCase = NoCase /\ clock = 0 /\ evaluation = NoEvaluation
    /\ subject = NoSubject /\ priorStatus = "none" /\ validation = <<>>
    /\ files = NoFiles /\ cliRun = NoCall
    /\ vp = None /\ vpOptions = NoCall /\ vpCall = NoCall
    /\ suite = <<>> /\ results = <<>> /\ run = NoRun /\ report = NoReport
    /\ packDir = NoPack /\ loaded = NoLoad

GenerateTestKeyPair ==
    /\ edKeys = NoKeys
    /\ edKeys' = EdGenerateTestKeyPair
    /\ UNCHANGED <<edMessage, edSignature, edCall>>
    /\ UNCHANGED notEd

SignMessage ==
    /\ edKeys # NoKeys /\ edSignature = None
    /\ edSignature' = EdSign(edMessage, edKeys.privateKey)
    /\ UNCHANGED <<edMessage, edKeys, edCall>>
    /\ UNCHANGED notEd

\* a signature text that did not come from sign
PresentSignature ==
    /\ edKeys # NoKeys /\ edSignature = None
    /\ edSignature' \in EdTexts
    /\ UNCHANGED <<edMessage, edKeys, edCall>>
    /\ UNCHANGED notEd

VerifyMessage ==
    /\ edSignature # None /\ edCall = NoCall
    /\ \E message \in EdMessages, publicKey \in {edKeys.publicKey} \cup EdTexts :
         edCall' = [op |-> "verify", message |-> message, signature |-> edSignature,
                    publicKey |-> publicKey,
                    result |-> EdVerify(message, edSignature, publicKey)]
    /\ UNCHANGED <<edMessage, edKeys, edSignature>>
    /\ UNCHANGED notEd

VerifyDecision ==
    /\ edSignature # None /\ edCall = NoCall
    /\ \E decision \in EdDecisions :
         edCall' = [op |-> "verifyDecisionSignature", decision |-> decision,
                    message |-> canonicalize(decision),
                    signature |-> edSignature, publicKey |-> edKeys.publicKey,
                    result |-> EdVerifyDecisionSignature(decision, edSignature, edKeys.publicKey)]
    /\ UNCHANGED <<edMessage, edKeys, edSignature>>
    /\ UNCHANGED notEd

EdNext == GenerateTestKeyPair \/ SignMessage \/ PresentSignature \/ VerifyMessage \/ VerifyDecision

\* C7: verify(m, sign(m, priv), pub) is true for the pair of generateTestKeyPair
\* and every message m, the canonical bytes of the empty object included.
C7_SignVerifyRoundTrip ==
    /\ edCall.op = "verify"
    /\ edCall.signature = EdSign(edCall.message, edKeys.privateKey)
    /\ edCall.publicKey = edKeys.publicKey
    => edCall.result = TRUE

\* C8: a verifier that accepts signature s over payload P under a public key
\* rejects s over every other payload and every other signature text over P.
C8_TamperDetection ==
    edCall.op \in {"verify", "verifyDecisionSignature"} /\ edCall.result = TRUE
    => /\ \A m \in EdMessages \ {edCall.message} :
            ~EdVerify(m, edCall.signature, edCall.publicKey)
       /\ \A s \in EdTexts \ {edCall.signature} :
            ~EdVerify(edCall.message, s, edCall.publicKey)

\* C21: the bytes verifyDecisionSignature hands to verify are the canonical bytes
\* of the decision with its signature field removed, so that two decisions that
\* differ only in their signature field give the same bytes.
C21_SignedBytesExcludeSignature ==
    edCall.op = "verifyDecisionSignature"
    => /\ edCall.message = canonicalize(Without(edCall.decision, "signature"))
       /\ edCall.message =
            canonicalize(With(edCall.decision, "signature", Str("ed25519:b3RoZXI")))

(***************************************************************************)
(* ConformanceRunner.evaluatePolicy (the conformance runner)               *)
(***************************************************************************)
\* a || b
OrElse(a, b) == IF Truthy(a) THEN a ELSE b
\* a > b on numbers; a comparison with undefined is false
JsGreaterOrEqual(a, b) == TypeOf(a) = "num" /\ TypeOf(b) = "num" /\ a[2] >= b[2]
JsGreater(a, b) == TypeOf(a) = "num" /\ TypeOf(b) = "num" /\ a[2] > b[2]
\* `${v}`
Template(v) ==
    CASE TypeOf(v) = "num" -> NumberToString(v[2])
      [] TypeOf(v) = "str" -> v[2]
      [] TypeOf(v) = "bool" -> IF v[2] THEN "true" ELSE "false"
      [] OTHER -> "undefined"

Reason(code, message) == Literal(<< <<"code", Str(code)>>, <<"message", Str(message)>> >>)

\* the members every plain object inherits from Object.prototype
ObjectPrototype == {"constructor", "toString", "valueOf", "hasOwnProperty"}
\* o[k] with a computed key: the own property, else the inherited member
Lookup(o, k) ==
    IF Has(o, k) THEN Get(o, k)
    ELSE IF IsObject(o) /\ k \in ObjectPrototype THEN <<"function", k>>
    ELSE Undefined
\* passport.limits?.["payments.refund"]?.currency_limits?.[currency]
RefundLimits(passport, currency) ==
    Lookup(Get(Get(Get(passport, "limits"), "payments.refund"), "currency_limits"),
           currency[2])

RefundReasons(passport, context) ==
    LET amount == OrElse(Get(context, "amount"), Num(0))
        currency == OrElse(Get(context, "currency"), Str("USD"))
        limits == RefundLimits(passport, currency)
    IN IF Truthy(limits)
       THEN IF JsGreater(amount, Get(limits, "max_per_tx"))
            THEN <<Reason("oap.limit_exceeded",
                          "Amount " \o Template(amount) \o " exceeds max per transaction "
                              \o Template(Get(limits, "max_per_tx")))>>
            ELSE <<>>
       ELSE <<Reason("oap.currency_unsupported",
                     "Currency " \o Template(currency) \o " not supported for this passport")>>

ExportReasons(passport, context) ==
    LET includePii == OrElse(Get(context, "include_pii"), Bool(FALSE))
        allowPii == OrElse(Get(Get(Get(passport, "limits"), "data.export"), "allow_pii"),
                           Bool(FALSE))
    IN IF Truthy(includePii) /\ ~Truthy(allowPii)
       THEN <<Reason("oap.pii_blocked", "PII export not allowed for this passport")>>
       ELSE <<>>

\* "sha256:" and the 64 hex digits of SHA-256 over the canonical passport
computePassportDigest(passport) == "sha256:" \o "<sha256 " \o canonicalize(passport) \o ">"
\* new Date(now).toISOString()
ToISOString(now) == "2024-01-15T10:30:0" \o ToString(now) \o ".000Z"

\* if (allow && reasons.length === 0) reasons.push(oap.allowed)
SuccessReasonAlways(allow, reasons) ==
    reasons \o <<Reason("oap.allowed", "Transaction within limits and policy requirements")>>
SuccessReason(allow, reasons) ==
    IF allow /\ Len(reasons) = 0
    THEN <<Reason("oap.allowed", "Transaction within limits and policy requirements")>>
    ELSE reasons

\* an evaluator whose verdict depends on when it runs
evaluatePolicyStateful(case, now) ==
    [valid |-> TRUE, errors |-> <<>>,
     decision |-> Literal(<< <<"policy_id", Str(case.packId)>>, <<"allow", Bool(now = 0)>>,
                             <<"reasons", Arr(<<>>)>> >>)]
evaluatePolicy(case, now) ==
    LET packId == case.packId
        passport == case.passport
        context == case.context
        denials == (IF packId = "payments.refund.v1" THEN RefundReasons(passport, context)
                    ELSE <<>>)
                   \o (IF packId = "data.export.v1" THEN ExportReasons(passport, context)
                       ELSE <<>>)
        allow == denials = <<>>
        reasons == SuccessReason(allow, denials)
    IN [valid |-> TRUE,
        errors |-> <<>>,
        decision |-> Literal(<<
            <<"decision_id", Str("test_" \o ToString(now))>>,
            <<"policy_id", Str(packId)>>,
            <<"agent_id", OrElse(Get(passport, "agent_id"), Get(passport, "passport_id"))>>,
            <<"owner_id", Get(passport, "owner_id")>>,
            <<"assurance_level", Get(passport, "assurance_level")>>,
            <<"allow", Bool(allow)>>,
            <<"reasons", Arr(reasons)>>,
            <<"created_at", Str(ToISOString(now))>>,
            <<"expires_in", Num(3600)>>,
            <<"passport_digest", Str(computePassportDigest(passport))>>,
            <<"signature",
              Str("ed25519:test_signature_placeholder_64_chars_long_for_conformance_testing")>>,
            <<"kid", Str("oap:registry:test-key")>> >>)]

(***************************************************************************)
(* Test cases: passports over assurance level, status, capability and      *)
(* limits; refund contexts with amounts up to MaxAmount around limits      *)
(* below MaxAmount; export and release contexts.                           *)
(***************************************************************************)
MaxAmount == 3
MaxClock == 2

Packs == {"payments.refund.v1", "data.export.v1", "repo.release.publish.v1"}

CurrencyLimitTables ==
    {Undefined, Literal(<<>>)}
    \cup { Literal(<< <<"USD", Literal(<< <<"max_per_tx", Num(m)>>,
                                          <<"daily_cap", Num(10 * m)>> >>)>> >>) :
            m \in 0..(MaxAmount - 1) }
    \cup { Literal(<< <<"USD", Literal(<< <<"max_per_tx", Num(1)>> >>)>>,
                      <<"EUR", Literal(<< <<"max_per_tx", Num(2)>> >>)>> >>) }

PolicyPassport(level, status, capability, currencyLimits, allowPii) ==
    Defined(Literal(<<
        <<"passport_id", Str("550e8400-e29b-41d4-a716-446655440000")>>,
        <<"kind", Str("template")>>, <<"spec_version", Str("oap/1.0")>>,
        <<"owner_id", Str("org_12345678")>>, <<"owner_type", Str("org")>>,
        <<"assurance_level", Str(level)>>, <<"status", Str(status)>>,
        <<"capabilities", Arr(IF capability = "" THEN <<>>
                              ELSE <<Literal(<< <<"id", Str(capability)>> >>)>>)>>,
        <<"limits", Literal(<<
            <<"payments.refund", Defined(Literal(<< <<"currency_limits", currencyLimits>> >>))>>,
            <<"data.export", Defined(Literal(<< <<"allow_pii", allowPii>>,
                                                <<"max_rows", Num(1000)>>,
                                                <<"allowed_collections",
                                                  Arr(<<Str("users")>>)>> >>))>> >>)>>,
        <<"regions", Arr(<<Str("US")>>)>>,
        <<"created_at", Str("2024-01-01T00:00:00Z")>>,
        <<"updated_at", Str("2024-01-15T10:30:00Z")>>,
        <<"version", Str("1.0.0")>> >>))

Context(pairs) == Defined(Literal(pairs))
RefundContexts ==
    { Context(<< <<"amount", amount>>, <<"currency", currency>>,
                 <<"order_id", Str("order_1")>>, <<"region", Str("US")>> >>) :
        amount \in {Undefined} \cup {Num(a) : a \in 0..MaxAmount},
        currency \in {Undefined, Str("USD"), Str("EUR"), Str("JPY"), Str("constructor")} }
ExportContexts ==
    { Context(<< <<"collection", Str(collection)>>, <<"estimated_rows", Num(rows)>>,
                 <<"include_pii", pii>>, <<"region", Str("US")>> >>) :
        collection \in {"users", "payments"},
        rows \in {10, 5000}, pii \in {Undefined, Bool(TRUE), Bool(FALSE)} }
ReleaseContexts ==
    { Context(<< <<"repo", Str("aporthq/aport-spec")>>, <<"branch", Str(branch)>>,
                 <<"tag", Str("v1.0.0")>> >>) : branch \in {"main", "feature"} }
PackContexts ==
    ("payments.refund.v1" :> RefundContexts) @@ ("data.export.v1" :> ExportContexts)
    @@ ("repo.release.publish.v1" :> ReleaseContexts)

PolicyPassports ==
    { PolicyPassport(level, status, capability, currencyLimits, allowPii) :
        level \in {"L0", "L2"}, status \in {"active", "suspended"},
        capability \in {"", "payments.refund"},
        currencyLimits \in CurrencyLimitTables,
        allowPii \in {Undefined, Bool(TRUE)} }
TestCases ==
    { [packId |-> packId, passport |-> passport, context |-> context] :
        packId \in Packs, passport \in PolicyPassports,
        context \in RefundContexts \cup ExportContexts \cup ReleaseContexts }

PolicyInit ==
    /\ testCase \in {c \in TestCases : c.context \in PackContexts[c.packId]}
    /\ clock = 1
    /\ evaluation = NoEvaluation
    /\ doc = None /\ docAlt = None /\ jcsOut = None /\ detOut = None
    /\ oap = None /\ oapKind = "none" /\ registryKey = None
    /\ exported = None /\ vc = None /\ call = NoCall
    /\ edMessage = None /\ edKeys = NoKeys /\ edSignature = None /\ edCall = NoCall
    /\ subject = NoSubject /\ priorStatus = "none" /\ validation = <<>>
    /\ files = NoFiles /\ cliRun = NoCall
    /\ vp = None /\ vpOptions = NoCall /\ vpCall = NoCall
    /\ suite = <<>> /\ results = <<>> /\ run = NoRun /\ report = NoReport
    /\ packDir = NoPack /\ loaded = NoLoad

\* time passes between the loading of a case and its evaluation
Tick ==
    /\ clock < MaxClock
    /\ evaluation = NoEvaluation
    /\ clock' = clock + 1
    /\ UNCHANGED <<testCase, evaluation>>
    /\ UNCHANGED notPolicy

EvaluatePolicy ==
    /\ evaluation = NoEvaluation
    /\ evaluation' = evaluatePolicy(testCase, clock)
    /\ UNCHANGED <<testCase, clock>>
    /\ UNCHANGED notPolicy

PolicyNext == Tick \/ EvaluatePolicy

Evaluated == evaluation # NoEvaluation
Allow == Get(evaluation.decision, "allow")[2]
ReasonCodes ==
    LET reasons == Get(evaluation.decision, "reasons")[2]
    IN [i \in 1..Len(reasons) |-> Get(reasons[i], "code")[2]]
\* the case is a refund in currency c and the passport has limits for c
RefundCase ==
    /\ testCase.packId = "payments.refund.v1"
    /\ TypeOf(Get(testCase.context, "currency")) = "str"
    /\ TypeOf(Get(testCase.context, "amount")) = "num"
CurrencyTable ==
    Get(Get(Get(testCase.passport, "limits"), "payments.refund"), "currency_limits")
CurrencyEntry == Get(CurrencyTable, Get(testCase.context, "currency")[2])

C10_UnsupportedCurrency ==
    Evaluated /\ RefundCase /\ ~Has(CurrencyTable, Get(testCase.context, "currency")[2])
    => ~Allow /\ ReasonCodes = <<"oap.currency_unsupported">>
Status == Get(testCase.passport, "status")[2]

\* C11: evaluatePolicy on a passport whose status is suspended returns
\* allow = false with reason oap.passport_suspended, for every pack and
\* context, also when every limit check passes.
C11_SuspendedDenies ==
    Evaluated /\ Status = "suspended"
    => ~Allow /\ ReasonCodes = <<"oap.passport_suspended">>

\* ASSURANCE_LEVELS, lowest first
AssuranceOrder == <<"L0", "L1", "L2", "L3", "L4KYC", "L4FIN">>
AssuranceRank(level) == CHOOSE i \in 1..Len(AssuranceOrder) : AssuranceOrder[i] = level
\* POLICY_PACK_REQUIREMENTS[packId].minAssurance and .requiredCapabilities
MinAssurance ==
    ("payments.refund.v1" :> "L2") @@ ("data.export.v1" :> "L1")
    @@ ("repo.release.publish.v1" :> "L2")
RequiredCapability ==
    ("payments.refund.v1" :> "payments.refund") @@ ("data.export.v1" :> "data.export")
    @@ ("repo.release.publish.v1" :> "repo.release.publish")
AssuranceLevel == Get(testCase.passport, "assurance_level")[2]
AssuranceBelowMinimum ==
    AssuranceRank(AssuranceLevel) < AssuranceRank(MinAssurance[testCase.packId])

\* C12: evaluatePolicy denies with reason oap.assurance_insufficient whenever
\* passport.assurance_level is below the pack's minimum in the order
\* L0 < L1 < L2 < L3 < L4KYC < L4FIN; an L0 passport is denied for
\* data.export.v1 with a valid context.
C12_AssuranceGate ==
    Evaluated /\ AssuranceBelowMinimum
    => ~Allow /\ \E i \in DOMAIN ReasonCodes : ReasonCodes[i] = "oap.assurance_insufficient"

(***************************************************************************)
(* SchemaValidator: Ajv with allErrors over the fallback schemas.  A       *)
(* schema is [required, properties]; a property's rule is a sequence of    *)
(* <<keyword, argument>>.  Strings are atoms here, so a format or pattern  *)
(* is the table of the model's strings that match it.  Errors are listed   *)
(* required-first, then property by property; the statements about them    *)
(* depend on which errors are listed, never on their order.                *)
(***************************************************************************)
Uuids == {"550e8400-e29b-41d4-a716-446655440000", "550e8400-e29b-41d4-a716-446655440002"}
DateTimes ==
    {"2024-01-01T00:00:00Z", "2024-01-15T10:30:00Z"} \cup {ToISOString(n) : n \in 0..MaxClock}
\* ^sha256:[a-f0-9]{64}$ : what computePassportDigest returns, on any passport
Sha256Digests == {computePassportDigest(passport) : passport \in PolicyPassports}
\* ^ed25519:[A-Za-z0-9+/=]+$
Base64Signatures == {"ed25519:dGVzdF9zaWduYXR1cmU=", "ed25519:AAAA"}

MatchesFormat(format, s) ==
    CASE format = "uuid" -> s \in Uuids
      [] format = "date-time" -> s \in DateTimes
MatchesPattern(pattern, s) ==
    CASE pattern = "^sha256:[a-f0-9]{64}$" -> s \in Sha256Digests
      [] pattern = "^ed25519:[A-Za-z0-9+/=]+$" -> s \in Base64Signatures

\* typeof data against a JSON Schema type
HasType(type, v) ==
    CASE type = "string" -> TypeOf(v) = "str"
      [] type = "boolean" -> TypeOf(v) = "bool"
      [] type = "integer" -> TypeOf(v) = "num"
      [] type = "array" -> TypeOf(v) = "arr"
      [] type = "object" -> TypeOf(v) = "obj"

\* the message of a failing keyword, "" when the keyword passes
KeywordError(keyword, arg, v) ==
    CASE keyword = "type" ->
            IF HasType(arg, v) THEN "" ELSE "must be " \o arg
      [] keyword = "format" ->
            IF TypeOf(v) = "str" /\ ~MatchesFormat(arg, v[2])
            THEN "must match format \"" \o arg \o "\"" ELSE ""
      [] keyword = "pattern" ->
            IF TypeOf(v) = "str" /\ ~MatchesPattern(arg, v[2])
            THEN "must match pattern \"" \o arg \o "\"" ELSE ""
      [] keyword = "enum" ->
            IF TypeOf(v) = "str" /\ v[2] \in Range(arg) THEN ""
            ELSE "must be equal to one of the allowed values"
      [] keyword = "const" ->
            IF v = Str(arg) THEN "" ELSE "must be equal to constant"
      [] keyword = "minimum" ->
            IF TypeOf(v) = "num" /\ v[2] < arg
            THEN "must be >= " \o ToString(arg) ELSE ""

AssuranceEnum == <<"L0", "L1", "L2", "L3", "L4KYC", "L4FIN">>
StringRule == << <<"type", "string">> >>

getFallbackPassportSchema ==
    [required |-> <<"passport_id", "kind", "spec_version", "owner_id", "owner_type",
                    "status", "assurance_level", "capabilities", "limits", "regions",
                    "created_at", "updated_at", "version">>,
     properties |-> <<
        <<"passport_id", << <<"type", "string">>, <<"format", "uuid">> >> >>,
        <<"kind", << <<"type", "string">>, <<"enum", <<"template", "instance">> >> >> >>,
        <<"spec_version", << <<"type", "string">>, <<"const", "oap/1.0">> >> >>,
        <<"owner_id", StringRule>>,
        <<"owner_type", << <<"type", "string">>, <<"enum", <<"org", "user">> >> >> >>,
        <<"assurance_level", << <<"type", "string">>, <<"enum", AssuranceEnum>> >> >>,
        <<"status", << <<"type", "string">>,
                       <<"enum", <<"draft", "active", "suspended", "revoked">> >> >> >>,
        <<"capabilities", << <<"type", "array">> >> >>,
        <<"limits", << <<"type", "object">> >> >>,
        <<"regions", << <<"type", "array">> >> >>,
        <<"created_at", << <<"type", "string">>, <<"format", "date-time">> >> >>,
        <<"updated_at", << <<"type", "string">>, <<"format", "date-time">> >> >>,
        <<"version", StringRule>> >>]

DecisionMinimum == 0
getFallbackDecisionSchema ==
    [required |-> <<"decision_id", "policy_id", "agent_id", "owner_id", "assurance_level",
                    "allow", "reasons", "created_at", "expires_in", "passport_digest",
                    "signature", "kid">>,
     properties |-> <<
        <<"decision_id", << <<"type", "string">>, <<"format", "uuid">> >> >>,
        <<"policy_id", StringRule>>,
        <<"agent_id", << <<"type", "string">>, <<"format", "uuid">> >> >>,
        <<"owner_id", StringRule>>,
        <<"assurance_level", << <<"type", "string">>, <<"enum", AssuranceEnum>> >> >>,
        <<"allow", << <<"type", "boolean">> >> >>,
        <<"reasons", << <<"type", "array">> >> >>,
        <<"created_at", << <<"type", "string">>, <<"format", "date-time">> >> >>,
        <<"expires_in", << <<"type", "integer">>, <<"minimum", DecisionMinimum>> >> >>,
        <<"passport_digest", << <<"type", "string">>,
                                <<"pattern", "^sha256:[a-f0-9]{64}$">> >> >>,
        <<"signature", << <<"type", "string">>,
                          <<"pattern", "^ed25519:[A-Za-z0-9+/=]+$">> >> >>,
        <<"kid", StringRule>> >>]

\* an Ajv error: instancePath and message
AjvError(path, message) == [instancePath |-> path, message |-> message]
RECURSIVE Flatten(_)
Flatten(seqs) == IF seqs = <<>> THEN <<>> ELSE Head(seqs) \o Flatten(Tail(seqs))

\* validate(data) with allErrors: every failing keyword leaves an error
AjvErrors(schema, data) ==
    IF ~IsObject(data) THEN <<AjvError("", "must be object")>>
    ELSE
    LET missing == SelectSeq(schema.required, LAMBDA k : Get(data, k) = Undefined)
        requiredErrors ==
            [i \in 1..Len(missing) |->
                AjvError("", "must have required property '" \o missing[i] \o "'")]
        propertyErrors(prop) ==
            LET v == Get(data, prop[1])
                messages == [i \in 1..Len(prop[2]) |->
                                KeywordError(prop[2][i][1], prop[2][i][2], v)]
                failed == SelectSeq(messages, LAMBDA m : m # "")
            IN IF v = Undefined THEN <<>>
               ELSE [i \in 1..Len(failed) |-> AjvError("/" \o prop[1], failed[i])]
    IN requiredErrors
       \o Flatten([i \in 1..Len(schema.properties) |-> propertyErrors(schema.properties[i])])

\* `${err.instancePath || "root"}: ${err.message}`
ErrorText(err) ==
    (IF err.instancePath = "" THEN "root" ELSE err.instancePath) \o ": " \o err.message
ValidateFirstOnly(schema, data) ==
    LET all == AjvErrors(schema, data)
        errors == IF all = <<>> THEN <<>> ELSE <<Head(all)>>
    IN [valid |-> errors = <<>>, errors |-> [i \in 1..Len(errors) |-> ErrorText(errors[i])]]
ValidateWith(schema, data) ==
    LET errors == AjvErrors(schema, data)
    IN [valid |-> errors = <<>>, errors |-> [i \in 1..Len(errors) |-> ErrorText(errors[i])]]
validatePassport(passport) == ValidateWith(getFallbackPassportSchema, passport)
validateDecision(decision) == ValidateWith(getFallbackDecisionSchema, decision)

\* C13: every decision evaluatePolicy produces passes validateDecision with
\* zero errors: decision_id and agent_id are UUIDs, signature matches
\* ed25519:<base64>, passport_digest matches sha256:<64 hex digits>.
C13_ProducedDecisionValidates ==
    Evaluated => validateDecision(evaluation.decision) = [valid |-> TRUE, errors |-> <<>>]

\* typeof v, for the two types validateContext asks about
TypeofIs(v, t) ==
    CASE t = "number" -> TypeOf(v) = "num"
      [] t = "string" -> TypeOf(v) = "str"
\* !context.f || typeof context.f !== t, and the message pushed for it
RequiredOfType(context, field, t) ==
    IF ~Truthy(Get(context, field)) \/ ~TypeofIs(Get(context, field), t)
    THEN <<field \o " is required and must be a " \o t>> ELSE <<>>

validateContext(packId, context) ==
    LET errors ==
          CASE packId = "payments.refund.v1" ->
                  RequiredOfType(context, "amount", "number")
                  \o RequiredOfType(context, "currency", "string")
                  \o RequiredOfType(context, "order_id", "string")
            [] packId = "data.export.v1" ->
                  RequiredOfType(context, "collection", "string")
                  \o (IF Truthy(Get(context, "estimated_rows"))
                         /\ ~TypeofIs(Get(context, "estimated_rows"), "number")
                      THEN <<"estimated_rows must be a number">> ELSE <<>>)
            [] packId = "repo.release.publish.v1" ->
                  RequiredOfType(context, "repo", "string")
                  \o RequiredOfType(context, "branch", "string")
                  \o RequiredOfType(context, "tag", "string")
            [] OTHER -> <<"Unknown policy pack: " \o packId>>
    IN [valid |-> Len(errors) = 0, errors |-> errors]

(***************************************************************************)
(* Documents handed to the validators: a valid passport, decision and      *)
(* context per pack, with every subset of a few required fields left out   *)
(* and with fields of a wrong type, format or value.                       *)
(***************************************************************************)
RECURSIVE WithoutAll(_, _)
WithoutAll(o, ks) ==
    IF ks = {} THEN o
    ELSE LET k == CHOOSE x \in ks : TRUE IN WithoutAll(Without(o, k), ks \ {k})

Statuses == {"draft", "active", "suspended", "revoked"}
ValidPassport ==
    PolicyPassport("L2", "active", "payments.refund",
                   Literal(<< <<"USD", Literal(<< <<"max_per_tx", Num(1)>>,
                                                  <<"daily_cap", Num(10)>> >>)>> >>),
                   Undefined)
PassportVariants ==
    {WithoutAll(ValidPassport, ks) : ks \in SUBSET {"passport_id", "kind", "version"}}
    \cup {With(ValidPassport, "kind", v) : v \in {Str("robot"), Num(5)}}
    \cup {With(ValidPassport, "passport_id", Str("not-a-uuid")),
          With(ValidPassport, "created_at", Str("yesterday")),
          With(With(ValidPassport, "spec_version", Str("oap/2.0")), "limits", Arr(<<>>)),
          Null}

ValidDecision ==
    Literal(<<
        <<"decision_id", Str("550e8400-e29b-41d4-a716-446655440002")>>,
        <<"policy_id", Str("payments.refund.v1")>>,
        <<"agent_id", Str("550e8400-e29b-41d4-a716-446655440000")>>,
        <<"owner_id", Str("org_12345678")>>,
        <<"assurance_level", Str("L2")>>,
        <<"allow", Bool(TRUE)>>,
        <<"reasons", Arr(<<Reason("oap.allowed", "Transaction within limits")>>)>>,
        <<"created_at", Str("2024-01-15T10:30:00Z")>>,
        <<"expires_in", Num(3600)>>,
        <<"passport_digest", Str(computePassportDigest(ValidPassport))>>,
        <<"signature", Str("ed25519:dGVzdF9zaWduYXR1cmU=")>>,
        <<"kid", Str("oap:registry:test-key")>> >>)
\* the expected decision of a generated test case
GeneratedExpected ==
    With(With(With(ValidDecision, "decision_id", Str("test_decision_id")),
              "passport_digest", Str("sha256:test_digest")),
         "signature", Str("ed25519:test_signature"))
DecisionVariants ==
    {WithoutAll(With(With(ValidDecision, "expires_in", Num(e)), "reasons", Arr(rs)), ks) :
        e \in {0 - 1, 0, 1, 3600},
        rs \in {<<>>, <<Reason("oap.allowed", "Transaction within limits")>>},
        ks \in {{}, {"kid"}, {"kid", "allow"}, {"decision_id", "kid", "allow"}}}
    \cup {GeneratedExpected, With(ValidDecision, "expires_in", Str("3600"))}

ContextVariants(packId) ==
    CASE packId = "payments.refund.v1" ->
            {Context(<< <<"amount", a>>, <<"currency", c>>, <<"order_id", o>> >>) :
                a \in {Undefined, Num(0), Num(1), Str("1")},
                c \in {Undefined, Str("USD"), Num(840)},
                o \in {Undefined, Str("order_1")}}
      [] packId = "data.export.v1" ->
            {Context(<< <<"collection", c>>, <<"estimated_rows", r>> >>) :
                c \in {Undefined, Str("users"), Str("")},
                r \in {Undefined, Num(10), Str("10")}}
      [] packId = "repo.release.publish.v1" ->
            {Context(<< <<"repo", r>>, <<"branch", b>>, <<"tag", t>> >>) :
                r \in {Undefined, Str("aporthq/aport-spec")},
                b \in {Undefined, Str("main")},
                t \in {Undefined, Str("v1.0.0")}}
      [] OTHER -> {Context(<<>>)}

Subjects ==
    {[kind |-> "passport", packId |-> "", doc |-> d] : d \in PassportVariants}
    \cup {[kind |-> "decision", packId |-> "", doc |-> d] : d \in DecisionVariants}
    \cup UNION {{[kind |-> "context", packId |-> packId, doc |-> d] : d \in ContextVariants(packId)} :
                    packId \in Packs \cup {"unknown.pack.v1"}}

ValidatorInit ==
    /\ subject \in Subjects
    /\ priorStatus = "none"
    /\ validation = <<>>
    /\ doc = None /\ docAlt = None /\ jcsOut = None /\ detOut = None
    /\ oap = None /\ oapKind = "none" /\ registryKey = None
    /\ exported = None /\ vc = None /\ call = NoCall
    /\ edMessage = None /\ edKeys = NoKeys /\ edSignature = None /\ edCall = NoCall
    /\ testCase = NoCase /\ clock = 0 /\ evaluation = NoEvaluation
    /\ files = NoFiles /\ cliRun = NoCall
    /\ vp = None /\ vpOptions = NoCall /\ vpCall = NoCall
    /\ suite = <<>> /\ results = <<>> /\ run = NoRun /\ report = NoReport
    /\ packDir = NoPack /\ loaded = NoLoad

\* the passport's owner or registry writes a new status into it; nothing in
\* the repository stands between two versions of a passport
ChangeStatus ==
    /\ subject.kind = "passport" /\ TypeOf(Get(subject.doc, "status")) = "str"
    /\ validation = <<>>
    /\ \E status \in Statuses \ {Get(subject.doc, "status")[2]} :
         /\ subject' = [subject EXCEPT !.doc = With(subject.doc, "status", Str(status))]
         /\ priorStatus' = Get(subject.doc, "status")[2]
    /\ UNCHANGED validation
    /\ UNCHANGED notValidator

ValidatePassport ==
    /\ subject.kind = "passport" /\ validation = <<>>
    /\ validation' = <<validatePassport(subject.doc)>>
    /\ UNCHANGED <<subject, priorStatus>>
    /\ UNCHANGED notValidator

ValidateDecision ==
    /\ subject.kind = "decision" /\ validation = <<>>
    /\ validation' = <<validateDecision(subject.doc)>>
    /\ UNCHANGED <<subject, priorStatus>>
    /\ UNCHANGED notValidator

ValidateContext ==
    /\ subject.kind = "context" /\ validation = <<>>
    /\ validation' = <<validateContext(subject.packId, subject.doc)>>
    /\ UNCHANGED <<subject, priorStatus>>
    /\ UNCHANGED notValidator

ValidatorNext == ChangeStatus \/ ValidatePassport \/ ValidateDecision \/ ValidateContext
SpecValidator == ValidatorInit /\ [][ValidatorNext]_vars

Validated == validation # <<>>
\* the required fields of the subject's kind, and the entry that reports one missing
RequiredFields ==
    CASE subject.kind = "passport" -> Range(getFallbackPassportSchema.required)
      [] subject.kind = "decision" -> Range(getFallbackDecisionSchema.required)
      [] subject.kind = "context" /\ subject.packId = "payments.refund.v1" ->
            {"amount", "currency", "order_id"}
      [] subject.kind = "context" /\ subject.packId = "data.export.v1" -> {"collection"}
      [] subject.kind = "context" /\ subject.packId = "repo.release.publish.v1" ->
            {"repo", "branch", "tag"}
      [] OTHER -> {}
MissingFields == {k \in RequiredFields : IsObject(subject.doc) /\ ~Has(subject.doc, k)}
MissingEntry(k) ==
    IF subject.kind = "context"
    THEN k \o " is required and must be a " \o (IF k = "amount" THEN "number" ELSE "string")
    ELSE "root: must have required property '" \o k \o "'"

C15_ExpiresInAndReasons ==
    /\ Validated /\ subject.kind = "decision"
    /\ \/ TypeOf(Get(subject.doc, "expires_in")) = "num" /\ Get(subject.doc, "expires_in")[2] <= 0
       \/ Get(subject.doc, "reasons") = Arr(<<>>)
    => ~validation[1].valid

\* C16: revoked is terminal: a passport whose status was changed from
\* revoked to draft, active or suspended is reported as a violation.
C16_RevokedIsTerminal ==
    /\ Validated /\ subject.kind = "passport"
    /\ priorStatus = "revoked" /\ Get(subject.doc, "status") # Str("revoked")
    => ~validation[1].valid

(***************************************************************************)
(* The oap-vc command line: export and import over files.  A file is held  *)
(* as the JSON value its text parses to.                                   *)
(***************************************************************************)
RECURSIVE ParseStringify(_)
\* JSON.parse(JSON.stringify(v)): undefined-valued properties are not written
ParseStringify(v) ==
    CASE TypeOf(v) = "obj" ->
            LET kept == SelectSeq(v[2], LAMBDA p : p[2] # Undefined)
            IN Obj([i \in 1..Len(kept) |-> <<kept[i][1], ParseStringify(kept[i][2])>>])
      [] TypeOf(v) = "arr" -> Arr([i \in 1..Len(v[2]) |-> ParseStringify(v[2][i])])
      [] OTHER -> v

InvalidType == Err("Invalid type. Must be \"passport\" or \"decision\"")
\* what the export command's try block computes from its files
ExportCommand(type, input, key) ==
    CASE type = "passport" -> exportPassportToVC(input, key)
      [] type = "decision" -> exportDecisionToVC(input, key)
      [] OTHER -> InvalidType
\* what the import command's try block computes: no public key is passed
ImportCommand(type, credential) ==
    CASE type = "passport" -> importVCToPassport(credential, Undefined)
      [] type = "decision" -> importVCToDecision(credential, Undefined)
      [] OTHER -> InvalidType

CliTypes == {"passport", "decision", "vc"}

CliInit ==
    /\ \E input \in Passports \cup Decisions, key \in RegistryKeys :
         files = [NoFiles EXCEPT !["input"] = ParseStringify(input), !["key"] = key]
    /\ cliRun = NoCall
    /\ vp = None /\ vpOptions = NoCall /\ vpCall = NoCall
    /\ suite = <<>> /\ results = <<>> /\ run = NoRun /\ report = NoReport
    /\ packDir = NoPack /\ loaded = NoLoad
    /\ doc = None /\ docAlt = None /\ jcsOut = None /\ detOut = None
    /\ oap = None /\ oapKind = "none" /\ registryKey = None
    /\ exported = None /\ vc = None /\ call = NoCall
    /\ edMessage = None /\ edKeys = NoKeys /\ edSignature = None /\ edCall = NoCall
    /\ testCase = NoCase /\ clock = 0 /\ evaluation = NoEvaluation
    /\ subject = NoSubject /\ priorStatus = "none" /\ validation = <<>>

\* oap-vc export --type t --input input --key key --output vc
CliExport ==
    /\ cliRun = NoCall
    /\ \E type \in CliTypes :
         LET result == ExportCommand(type, files["input"], files["key"])
         IN /\ files' = IF IsOk(result)
                        THEN [files EXCEPT !["vc"] = ParseStringify(result[2])]
                        ELSE files
            /\ cliRun' = [command |-> "export", type |-> type,
                          exit |-> IF IsOk(result) THEN 0 ELSE 1]
    /\ UNCHANGED notCli

\* oap-vc import --type t --input vc --output output
CliImport ==
    /\ cliRun # NoCall /\ cliRun.command = "export"
    /\ \E type \in CliTypes :
         LET result == IF files["vc"] = None THEN Err("ENOENT")
                       ELSE ImportCommand(type, files["vc"])
         IN /\ files' = IF IsOk(result)
                        THEN [files EXCEPT !["output"] = ParseStringify(result[2])]
                        ELSE files
            /\ cliRun' = [command |-> "import", type |-> type, exported |-> cliRun,
                          exit |-> IF IsOk(result) THEN 0 ELSE 1]
    /\ UNCHANGED notCli

CliNext == CliExport \/ CliImport
SpecCli == CliInit /\ [][CliNext]_vars

\* C17: the import command exits 0 and writes the OAP object on a VC file
\* that the export command produced, and exits non-zero only when the VC
\* fails structure validation or signature verification.
C17_CliImportSucceeds ==
    /\ cliRun # NoCall /\ cliRun.command = "import"
    /\ cliRun.exported.exit = 0 /\ cliRun.type = cliRun.exported.type
    => cliRun.exit = 0 /\ files["output"] # None

HasCapability(passport, capability) ==
    \E i \in 1..Len(Get(passport, "capabilities")[2]) :
        Get(Get(passport, "capabilities")[2][i], "id") = Str(capability)

\* C18: the first failing check decides the deny reason; a passport that
\* lacks the pack's capability is denied with reasons[0] =
\* oap.unknown_capability whatever the context.
C18_FirstFailingCheck ==
    Evaluated /\ ~HasCapability(testCase.passport, RequiredCapability[testCase.packId])
    => ~Allow /\ ReasonCodes[1] = "oap.unknown_capability"

ExportLimits == Get(Get(testCase.passport, "limits"), "data.export")
PiiBlocked ==
    Get(testCase.context, "include_pii") = Bool(TRUE)
    /\ Get(ExportLimits, "allow_pii") # Bool(TRUE)
CollectionForbidden ==
    Get(testCase.context, "collection") \notin Range(Get(ExportLimits, "allowed_collections")[2])
RowLimitExceeded ==
    Get(testCase.context, "estimated_rows")[2] > Get(ExportLimits, "max_rows")[2]
Reported(code) == \E i \in DOMAIN ReasonCodes : ReasonCodes[i] = code

\* C19: for data.export.v1, include_pii without allow_pii denies with
\* oap.pii_blocked, a collection outside allowed_collections denies with
\* oap.collection_forbidden, estimated_rows above max_rows denies with
\* oap.limit_exceeded, and the decision allows only when none of the three holds.
C19_ExportDecisionTable ==
    Evaluated /\ testCase.packId = "data.export.v1"
    => /\ PiiBlocked => ~Allow /\ Reported("oap.pii_blocked")
       /\ CollectionForbidden => ~Allow /\ Reported("oap.collection_forbidden")
       /\ RowLimitExceeded => ~Allow /\ Reported("oap.limit_exceeded")
       /\ Allow => ~PiiBlocked /\ ~CollectionForbidden /\ ~RowLimitExceeded

\* C20: every decision of evaluatePolicy has a non-empty reasons list; allow
\* is true exactly when reasons is the single code oap.allowed, and false
\* exactly when reasons holds at least one deny code and no oap.allowed.
C20_ReasonsInvariant ==
    Evaluated
    => /\ Len(ReasonCodes) > 0
       /\ Allow <=> ReasonCodes = <<"oap.allowed">>
       /\ ~Allow <=> ~Reported("oap.allowed")
\* a PII export was denied with the single reason oap.pii_blocked
C20_Witness ==
    /\ Evaluated /\ testCase.packId = "data.export.v1"
    /\ ~Allow /\ ReasonCodes = <<"oap.pii_blocked">>

\* C23: exportPassportToVC sets the issuer to the passport's did when it carries
\* one and to registryKey.issuer otherwise; exportDecisionToVC sets the issuer to
\* registryKey.issuer.
C23_IssuerDerivation ==
    exported # None /\ IsOk(exported)
    => Get(exported[2], "issuer")
         = (IF oapKind = "passport" /\ Truthy(Get(oap, "did"))
            THEN Get(oap, "did") ELSE Str(registryKey.issuer))

(***************************************************************************)
(* Verifiable Presentations (oap/vc/tools/src/vp.ts)                       *)
(***************************************************************************)
VpContext ==
    Arr(<<Str("https://www.w3.org/2018/credentials/v1"),
          Str("https://w3id.org/security/suites/ed25519-2020/v1")>>)
\* the JWS header of signPresentation: {alg: "Ed25519", typ: "JWT"}
VpJwsHeader == <<"header", "Ed25519">>

\* the credential check shared by createVerifiablePresentation and the verifier
vpCredentialOk(v) ==
    /\ Truthy(Get(v, "@context")) /\ Truthy(Get(v, "type"))
    /\ Truthy(Get(v, "credentialSubject")) /\ Truthy(Get(v, "proof"))

\* ...(value && {domain: value}): the property is spread only for a truthy value
SpreadDomain(value) == IF Truthy(value) THEN << <<"domain", value>> >> ELSE <<>>

signPresentation(vpWithoutProof, privateKey, options, created, verificationMethod) ==
    LET payloadToSign ==
            Literal(vpWithoutProof[2] \o << <<"challenge", options.challenge>> >>
                    \o SpreadDomain(options.domain)
                    \o << <<"created", created>>,
                          <<"verificationMethod", verificationMethod>> >>)
        canonicalMessage == canonicalizeJsonLd(payloadToSign)
        signatureBytes == signEd25519(canonicalMessage, privateKeyToBytes(privateKey))
        headerB64 == bytesToBase64url(VpJwsHeader)
        signatureB64 == bytesToBase64url(signatureBytes)
    IN Jws(<<headerB64, EmptyPart, signatureB64>>)

\* createVerifiablePresentation at time `now`; Err when it throws
createVerifiablePresentation(credentials, options, now) ==
    LET vcArray == IF TypeOf(credentials) = "arr" THEN credentials[2] ELSE <<credentials>>
        subject1 == Get(vcArray[1], "credentialSubject")
        holder == OrElse(options.holderDid,
                         OrElse(Get(subject1, "did"), Get(subject1, "agent_id")))
        vpWithoutProof ==
            Literal(<< <<"@context", VpContext>>,
                       <<"type", Arr(<<Str("VerifiablePresentation"),
                                       Str("OAPPassportPresentation")>>)>>,
                       <<"verifiableCredential",
                         IF Len(vcArray) = 1 THEN vcArray[1] ELSE Arr(vcArray)>>,
                       <<"holder", holder>> >>)
        created == Str(ToISOString(now))
        verificationMethod == Str(holder[2] \o "#key-1")
    IN IF \E i \in 1..Len(vcArray) : ~vpCredentialOk(vcArray[i])
       THEN Err("Invalid Verifiable Credential in presentation")
       ELSE IF ~Truthy(options.holderPrivateKey)
       THEN Err("holderPrivateKey is required for signing")
       ELSE IF ~Truthy(options.challenge)
       THEN Err("challenge is required to prevent replay attacks")
       ELSE IF ~Truthy(holder) THEN Err("holder DID is required")
       ELSE Ok(With(vpWithoutProof, "proof",
                Literal(<< <<"type", Str("Ed25519Signature2020")>>,
                           <<"created", created>>,
                           <<"verificationMethod", verificationMethod>>,
                           <<"proofPurpose", Str("authentication")>>,
                           <<"challenge", options.challenge>> >>
                        \o SpreadDomain(options.domain)
                        \o << <<"jws", signPresentation(vpWithoutProof,
                                           options.holderPrivateKey, options, created,
                                           verificationMethod)>> >>)))

Invalid(error) == [valid |-> FALSE, error |-> error]

\* verifyVerifiablePresentation: {valid, error?}
verifyVerifiablePresentation(p, expectedChallenge, expectedDomain, publicKey) ==
    LET proof == Get(p, "proof")
        vcs == IF TypeOf(Get(p, "verifiableCredential")) = "arr"
               THEN Get(p, "verifiableCredential")[2]
               ELSE <<Get(p, "verifiableCredential")>>
        vpWithoutProof ==
            Literal(<< <<"@context", Get(p, "@context")>>, <<"type", Get(p, "type")>>,
                       <<"verifiableCredential", Get(p, "verifiableCredential")>>,
                       <<"holder", Get(p, "holder")>>,
                       <<"challenge", Get(proof, "challenge")>> >>
                    \o SpreadDomain(Get(proof, "domain"))
                    \o << <<"created", Get(proof, "created")>>,
                          <<"verificationMethod", Get(proof, "verificationMethod")>> >>)
        canonicalMessage == canonicalizeJsonLd(vpWithoutProof)
        jws == Get(proof, "jws")
    IN IF \/ ~Truthy(Get(p, "@context")) \/ ~Truthy(Get(p, "type"))
          \/ ~Truthy(Get(p, "verifiableCredential")) \/ ~Truthy(proof)
       THEN Invalid("Invalid VP structure")
       ELSE IF Str("VerifiablePresentation") \notin Range(Get(p, "type")[2])
       THEN Invalid("VP must have type VerifiablePresentation")
       ELSE IF ~Truthy(Get(proof, "challenge"))
       THEN Invalid("VP proof must include challenge")
       ELSE IF Get(proof, "challenge") # expectedChallenge
       THEN Invalid("Challenge mismatch - possible replay attack")
       ELSE IF Truthy(expectedDomain) /\ Get(proof, "domain") # expectedDomain
       THEN Invalid("Domain mismatch - presentation not intended for this verifier")
       ELSE IF \E i \in 1..Len(vcs) : ~vpCredentialOk(vcs[i])
       THEN Invalid("Invalid VC in presentation")
       ELSE IF TypeOf(jws) # "jws"
       THEN Invalid("Verification error")           \* jws.split is not a function
       ELSE IF Len(jws[2]) # 3 THEN Invalid("Invalid JWS format")
       ELSE IF base64urlToBytes(jws[2][3]) = JunkBytes
       THEN Invalid("Verification error")           \* atob throws
       ELSE IF ~Truthy(publicKey) THEN Invalid("Public key required for verification")
       ELSE IF ~verifyEd25519(canonicalMessage, base64urlToBytes(jws[2][3]),
                              publicKeyToBytes(publicKey))
       THEN Invalid("Invalid signature")
       ELSE [valid |-> TRUE]

\* the credential presented: a signed passport credential
VpCredential ==
    exportPassportToVC(
        Passport(AgentId, Str("instance"), Undefined, Str("did:web:example.com:agents:7"),
                 Undefined, Undefined),
        SigningKey)[2]
Challenges == {Str("c1"), Str("c2")}
Domains == {Undefined, Str(""), Str("a.example"), Str("b.example")}
PresentationOptions ==
    { [holderDid |-> holderDid, holderPrivateKey |-> PrivateKey(k),
       challenge |-> challenge, domain |-> domain] :
        holderDid \in {Undefined, Str("did:web:holder.example")}, k \in KeyIds,
        challenge \in Challenges \cup {Str("")}, domain \in Domains }

VpInit ==
    /\ vpOptions \in PresentationOptions
    /\ vp = None
    /\ vpCall = NoCall
    /\ doc = None /\ docAlt = None /\ jcsOut = None /\ detOut = None
    /\ oap = None /\ oapKind = "none" /\ registryKey = None
    /\ exported = None /\ vc = None /\ call = NoCall
    /\ edMessage = None /\ edKeys = NoKeys /\ edSignature = None /\ edCall = NoCall
    /\ testCase = NoCase /\ clock = 0 /\ evaluation = NoEvaluation
    /\ subject = NoSubject /\ priorStatus = "none" /\ validation = <<>>
    /\ files = NoFiles /\ cliRun = NoCall
    /\ suite = <<>> /\ results = <<>> /\ run = NoRun /\ report = NoReport
    /\ packDir = NoPack /\ loaded = NoLoad

\* the presentation the holder created, as createVerifiablePresentation returned it
Presented == createVerifiablePresentation(VpCredential, vpOptions, clock)

CreatePresentation ==
    /\ vp = None /\ IsOk(Presented)
    /\ vp' = Presented[2]
    /\ UNCHANGED <<vpOptions, vpCall>>
    /\ UNCHANGED notVp

\* proof.challenge is replaced after signing
TamperChallenge ==
    /\ vp # None /\ vpCall = NoCall /\ vp = Presented[2]
    /\ \E challenge \in Challenges \ {vpOptions.challenge} :
         vp' = With(vp, "proof", With(Get(vp, "proof"), "challenge", challenge))
    /\ UNCHANGED <<vpOptions, vpCall>>
    /\ UNCHANGED notVp

\* proof.domain is replaced, added or removed after signing
TamperDomain ==
    /\ vp # None /\ vpCall = NoCall /\ vp = Presented[2]
    /\ \E domain \in Domains \ {Get(Get(vp, "proof"), "domain")} :
         vp' = With(vp, "proof", Defined(With(Get(vp, "proof"), "domain", domain)))
    /\ UNCHANGED <<vpOptions, vpCall>>
    /\ UNCHANGED notVp

VerifyPresentation ==
    /\ vp # None /\ vpCall = NoCall
    /\ \E expectedChallenge \in Challenges, expectedDomain \in Domains,
          publicKey \in {Undefined} \cup {PublicKey(k) : k \in KeyIds} :
         vpCall' = [op |-> "verify", expectedChallenge |-> expectedChallenge,
                    expectedDomain |-> expectedDomain, publicKey |-> publicKey,
                    result |-> verifyVerifiablePresentation(vp, expectedChallenge,
                                                           expectedDomain, publicKey)]
    /\ UNCHANGED <<vp, vpOptions>>
    /\ UNCHANGED notVp

VpNext == CreatePresentation \/ TamperChallenge \/ TamperDomain \/ VerifyPresentation
SpecVp == VpInit /\ [][VpNext]_vars

\* the compact JWS of a proof: three parts, the middle one empty
DetachedJws(jws, alg) ==
    /\ TypeOf(jws) = "jws" /\ Len(jws[2]) = 3
    /\ jws[2][1] = bytesToBase64url(<<"header", alg>>)
    /\ jws[2][2] = EmptyPart
    /\ jws[2][3][1] = "b64u" /\ jws[2][3][2][1] = "sig"

\* C22: the JWS of a presentation's proof (signPresentation) and the JWS of the
\* credential inside it (signCredential) are both of the detached compact form
\* header..signature, with a header that declares alg = EdDSA.
C22_DetachedJwsEdDSA ==
    vp # None /\ vp = Presented[2]
    => /\ DetachedJws(Get(Get(Get(vp, "verifiableCredential"), "proof"), "jws"), "EdDSA")
       /\ DetachedJws(Get(Get(vp, "proof"), "jws"), "EdDSA")

\* the public key of the holder who signed the presentation
HolderPublicKey == PublicKey(vpOptions.holderPrivateKey[2])
\* proof.challenge and proof.domain are as createVerifiablePresentation wrote them
ProofUnchanged ==
    /\ Get(Get(vp, "proof"), "challenge") = vpOptions.challenge
    /\ Get(Get(vp, "proof"), "domain")
         = (IF Truthy(vpOptions.domain) THEN vpOptions.domain ELSE Undefined)

\* C27: a presentation created with challenge c and domain d verifies under the
\* holder's public key exactly when expectedChallenge = c and expectedDomain is
\* absent or equal to d; one whose proof.challenge or proof.domain was changed
\* after signing is reported invalid.
C27_ChallengeBinding ==
    vpCall.op = "verify" /\ vpCall.publicKey = HolderPublicKey
    => IF ProofUnchanged
       THEN vpCall.result.valid
            <=> /\ vpCall.expectedChallenge = vpOptions.challenge
                /\ \/ vpCall.expectedDomain = Undefined
                   \/ vpCall.expectedDomain = vpOptions.domain
       ELSE ~vpCall.result.valid

\* the fields of the subject context that are absent or of the wrong type: a
\* required field that is not of its type, an estimated_rows that is no number
OffendingFields ==
    {k \in RequiredFields :
        ~TypeofIs(Get(subject.doc, k), IF k = "amount" THEN "number" ELSE "string")}
    \cup {k \in {"estimated_rows"} :
            /\ subject.packId = "data.export.v1" /\ Has(subject.doc, k)
            /\ ~TypeofIs(Get(subject.doc, k), "number")}

\* C29: validateContext returns valid = true for every context of a known pack
\* whose required fields are all present with the right type (a refund amount
\* of 0 included), and valid = false with one error per offending field otherwise.
C29_ContextRequirements ==
    Validated /\ subject.kind = "context" /\ subject.packId \in Packs
    => /\ validation[1].valid <=> OffendingFields = {}
       /\ Len(validation[1].errors) = Cardinality(OffendingFields)

\* C30: a passport that validatePassport accepts is accepted by
\* exportPassportToVC, and a decision that validateDecision accepts is accepted
\* by exportDecisionToVC.
C30_ValidatorAndCodecAgree ==
    Validated /\ validation[1].valid
    => CASE subject.kind = "passport" -> IsOk(exportPassportToVC(subject.doc, SigningKey))
         [] subject.kind = "decision" -> IsOk(exportDecisionToVC(subject.doc, SigningKey))
         [] OTHER -> TRUE

(***************************************************************************)
(* ConformanceRunner.runTests, runTestCase, compareResults, generateReport *)
(* (the conformance runner)                                                *)
(***************************************************************************)
\* the signature texts of the receipts that start with "ed25519:"
Ed25519Prefixed == {"ed25519:dGVzdF9zaWduYXR1cmU="}

verifySignature(receipt) ==
    IF ~Truthy(Get(receipt, "signature"))
    THEN [valid |-> FALSE, errors |-> <<"No signature provided">>]
    ELSE IF Get(receipt, "signature")[2] \notin Ed25519Prefixed
    THEN [valid |-> FALSE, errors |-> <<"Invalid signature format">>]
    ELSE [valid |-> TRUE, errors |-> <<>>]

\* d.reasons?.length
ReasonsLength(d) ==
    IF TypeOf(Get(d, "reasons")) = "arr" THEN Num(Len(Get(d, "reasons")[2])) ELSE Undefined

compareResults(actual, expected) ==
    LET differences ==
          (IF Get(actual, "allow") # Get(expected, "allow")
           THEN <<"allow: expected " \o Template(Get(expected, "allow")) \o ", got "
                    \o Template(Get(actual, "allow"))>>
           ELSE <<>>)
          \o (IF Get(actual, "assurance_level") # Get(expected, "assurance_level")
              THEN <<"assurance_level: expected " \o Template(Get(expected, "assurance_level"))
                       \o ", got " \o Template(Get(actual, "assurance_level"))>>
              ELSE <<>>)
          \o (IF ReasonsLength(actual) # ReasonsLength(expected)
              THEN <<"reasons: expected " \o Template(ReasonsLength(expected))
                       \o " reasons, got " \o Template(ReasonsLength(actual))>>
              ELSE <<>>)
    IN [matches |-> Len(differences) = 0, differences |-> differences]

\* reading a property of null or undefined throws a TypeError
Nullish(v) == TypeOf(v) \in {"null", "undef"}
\* if (!validation.valid) errors.push(`${label}: ${validation.errors.join(", ")}`)
Failure(label, outcome) ==
    IF outcome.valid THEN <<>> ELSE <<label \o ": " \o Join(outcome.errors, ", ")>>

\* evaluatePolicy is reached: validateContext did not throw on a null context
\* and evaluatePolicy has a passport to read
EvaluationReached(case) == ~Nullish(case.context) /\ ~Nullish(case.passport)
\* runTestCase throws: a property of a null context, passport or expected
\* decision is read by validateContext, evaluatePolicy or compareResults
runTestCaseThrows(case) == ~EvaluationReached(case) \/ Nullish(case.expected)

\* the TestResult runTestCase returns at time `now` when it does not throw
runTestCase(case, now) ==
    LET passportValidation == validatePassport(case.passport)
        contextValidation == validateContext(case.packId, case.context)
        policyResult == evaluatePolicy(case, now)
        decisionValidation == validateDecision(case.expected)
        signatureValidation == verifySignature(case.receipt)
        comparison == compareResults(policyResult.decision, case.expected)
        errors ==
            Failure("Passport validation failed", passportValidation)
            \o Failure("Context validation failed", contextValidation)
            \o Failure("Policy evaluation failed", policyResult)
            \o Failure("Expected decision validation failed", decisionValidation)
            \o (IF Truthy(case.receipt)
                THEN Failure("Signature verification failed", signatureValidation)
                ELSE <<>>)
            \o (IF comparison.matches THEN <<>>
                ELSE <<"Result mismatch: " \o Join(comparison.differences, ", ")>>)
    IN [testCase |-> case, passed |-> Len(errors) = 0, errors |-> errors, warnings |-> <<>>]

\* one turn of the loop of runTests: the result pushed for a case
TestResultOf(case, now) ==
    IF runTestCaseThrows(case)
    THEN [testCase |-> case, passed |-> FALSE,
          errors |-> <<"Test execution failed: TypeError: Cannot read properties of null">>,
          warnings |-> <<>>]
    ELSE runTestCase(case, now)

\* runTests started at time `now`; the clock advances by one from case to case
runTestsNoCatch(testCases, now) ==
    LET kept == SelectSeq(testCases, LAMBDA c : ~runTestCaseThrows(c))
    IN [i \in 1..Len(kept) |-> TestResultOf(kept[i], now + i - 1)]
runTests(testCases, now) ==
    [i \in 1..Len(testCases) |-> TestResultOf(testCases[i], now + i - 1)]

\* passed / total * 100 as the fraction <<numerator, denominator>>
SuccessRate(passed, total) == IF total > 0 THEN <<passed * 100, total>> ELSE <<0, 1>>

generateReport(rs, now) ==
    LET passed == Cardinality({i \in 1..Len(rs) : rs[i].passed})
        failed == Cardinality({i \in 1..Len(rs) : ~rs[i].passed})
        total == Len(rs)
    IN [timestamp |-> ToISOString(now),
        summary |-> [total |-> total, passed |-> passed, failed |-> failed,
                     successRate |-> SuccessRate(passed, total)],
        details |-> [i \in 1..Len(rs) |->
                        [testCase |-> rs[i].testCase.id, passed |-> rs[i].passed,
                         errors |-> rs[i].errors, warnings |-> rs[i].warnings]]]

(***************************************************************************)
(* Loaded test cases of the refund pack: a passport with max_per_tx = 1 in *)
(* USD, contexts below and above the limit and a null context, expected    *)
(* decisions that agree or disagree with the evaluation, and receipts.     *)
(***************************************************************************)
MaxCases == 2

Expected(level, allow, reasons) ==
    With(With(With(ValidDecision, "assurance_level", Str(level)), "allow", Bool(allow)),
         "reasons", Arr(reasons))
AllowedReason == Reason("oap.allowed", "Transaction within limits and policy requirements")
LimitReason == Reason("oap.limit_exceeded", "Amount 2 exceeds max per transaction 1")
CurrencyReason == Reason("oap.currency_unsupported", "Currency USD not supported for this passport")
RefundContext(amount) ==
    Context(<< <<"amount", Num(amount)>>, <<"currency", Str("USD")>>,
               <<"order_id", Str("order_1")>> >>)
LoadedCase(contextName, context, expected, receipt) ==
    [id |-> "payments.refund.v1:" \o contextName, packId |-> "payments.refund.v1",
     contextName |-> contextName, passport |-> ValidPassport, context |-> context,
     expected |-> expected, receipt |-> receipt]
SuiteCases ==
    { LoadedCase("allow", RefundContext(1), Expected("L2", TRUE, <<AllowedReason>>), Undefined),
      LoadedCase("deny", RefundContext(2), Expected("L2", FALSE, <<LimitReason>>), Undefined),
      LoadedCase("deny_code", RefundContext(2), Expected("L2", FALSE, <<CurrencyReason>>),
                 Undefined),
      LoadedCase("deny_allow", RefundContext(2), Expected("L2", TRUE, <<AllowedReason>>),
                 Undefined),
      LoadedCase("allow_level", RefundContext(1), Expected("L3", TRUE, <<AllowedReason>>),
                 Undefined),
      LoadedCase("allow_reasons", RefundContext(1),
                 Expected("L2", TRUE, <<AllowedReason, AllowedReason>>), Undefined),
      LoadedCase("allow_receipt", RefundContext(1), Expected("L2", TRUE, <<AllowedReason>>),
                 Literal(<< <<"signature", Str("ed25519:dGVzdF9zaWduYXR1cmU=")>> >>)),
      LoadedCase("allow_unsigned", RefundContext(1), Expected("L2", TRUE, <<AllowedReason>>),
                 Literal(<< <<"decision_id", Str("d1")>> >>)),
      LoadedCase("null_context", Null, Expected("L2", TRUE, <<AllowedReason>>), Undefined) }

RunnerInit ==
    /\ \E n \in 0..MaxCases : suite \in [1..n -> SuiteCases]
    /\ clock \in {0, MaxClock}
    /\ results = <<>>
    /\ run = NoRun
    /\ report = NoReport
    /\ doc = None /\ docAlt = None /\ jcsOut = None /\ detOut = None
    /\ oap = None /\ oapKind = "none" /\ registryKey = None
    /\ exported = None /\ vc = None /\ call = NoCall
    /\ edMessage = None /\ edKeys = NoKeys /\ edSignature = None /\ edCall = NoCall
    /\ testCase = NoCase /\ evaluation = NoEvaluation
    /\ subject = NoSubject /\ priorStatus = "none" /\ validation = <<>>
    /\ files = NoFiles /\ cliRun = NoCall
    /\ vp = None /\ vpOptions = NoCall /\ vpCall = NoCall
    /\ packDir = NoPack /\ loaded = NoLoad

\* const results = await this.runTests(testCases)
RunTests ==
    /\ ~run.started
    /\ results' = runTests(suite, clock)
    /\ run' = [started |-> TRUE, now |-> clock,
               evaluations |-> [i \in 1..Len(suite) |->
                                  IF EvaluationReached(suite[i])
                                  THEN evaluatePolicy(suite[i], clock + i - 1)
                                  ELSE NoEvaluation]]
    /\ clock' = clock + Len(suite)
    /\ UNCHANGED <<suite, report>>
    /\ UNCHANGED notRunner

\* const report = this.generateReport(results)
GenerateReport ==
    /\ run.started /\ report = NoReport
    /\ report' = generateReport(results, clock)
    /\ UNCHANGED <<suite, results, run, clock>>
    /\ UNCHANGED notRunner

RunnerNext == RunTests \/ GenerateReport
SpecRunner == RunnerInit /\ [][RunnerNext]_vars

\* the case at position i makes runTestCase throw
Throwing(i) == runTestCaseThrows(suite[i])

\* C24: runTests yields exactly one TestResult per loaded case, in the order of
\* the cases, a case whose runTestCase throws being recorded as failed; the
\* report's total is the number of cases and equals passed + failed.
C24_OneResultPerCase ==
    /\ run.started
       => /\ Len(results) = Len(suite)
          /\ \A i \in 1..Len(results) :
                /\ results[i].testCase = suite[i]
                /\ Throwing(i) => ~results[i].passed
    /\ report # NoReport
       => /\ report.summary.total = Len(suite)
          /\ report.summary.total = report.summary.passed + report.summary.failed
          /\ \A i \in 1..Len(suite) : report.details[i].testCase = suite[i].id

C24_Witness ==
    /\ report # NoReport /\ Len(suite) = 2
    /\ Throwing(1) /\ ~Throwing(2) /\ results[2].passed
    /\ report.summary.passed = 1 /\ report.summary.failed = 1

\* the codes of a decision's reasons, in order
Codes(d) ==
    IF TypeOf(Get(d, "reasons")) = "arr"
    THEN [i \in 1..Len(Get(d, "reasons")[2]) |-> Get(Get(d, "reasons")[2][i], "code")]
    ELSE <<>>
\* what an evaluation decided: the allow flag and the reason codes
Verdict(e) == <<Get(e.decision, "allow"), Codes(e.decision)>>

C26_PassedMeansAgreement ==
    run.started
    => \A i \in 1..Len(suite) :
          results[i].passed
          => /\ Get(run.evaluations[i].decision, "allow") = Get(suite[i].expected, "allow")
             /\ Get(run.evaluations[i].decision, "assurance_level")
                  = Get(suite[i].expected, "assurance_level")
             /\ Codes(run.evaluations[i].decision) = Codes(suite[i].expected)

(***************************************************************************)
(* ConformanceRunner.loadPackTestCases (the conformance runner)            *)
(* A file name is the sequence of the characters before its ".json"; the   *)
(* content of a file is given by its directory and its name.               *)
(***************************************************************************)
MaxFiles == 2

FileNames ==
    { <<"a", "l", "l", "o", "w">>,
      <<"a", "l", "l", "o", "w", "_", "u", "s", "e", "r", "s">>,
      <<"u", "s", "e", "r", "s">>,
      <<"d", "e", "n", "y">> }

\* String.prototype.includes
includes(f, name) ==
    \E k \in 0..(Len(f) - Len(name)) : SubSeq(f, k + 1, k + Len(name)) = name

NoFile == [dir |-> "none"]
\* JSON.parse(readFileSync(join(dir, file)))
loadJsonFile(dir, file) == [dir |-> dir, name |-> file]
\* files.find((f) => f.includes(contextName)), NoFile for undefined
FindIncluding(dir, listing, contextName) ==
    IF \E i \in 1..Len(listing) : includes(listing[i], contextName)
    THEN LET i == CHOOSE j \in 1..Len(listing) :
                     /\ includes(listing[j], contextName)
                     /\ \A l \in 1..(j - 1) : ~includes(listing[l], contextName)
         IN loadJsonFile(dir, listing[i])
    ELSE NoFile

\* the test cases of a pack directory; a context without expected file is skipped
loadPackTestCases(dir, packId) ==
    IF ~dir.passports.exists \/ ~dir.contexts.exists \/ ~dir.expected.exists
    THEN <<>>
    ELSE IF dir.passports.files = <<>>
    THEN <<>>                 \* join(passportsDir, undefined) throws, caught by the loader
    ELSE LET contextFiles == dir.contexts.files
             receiptFiles == IF dir.receipts.exists THEN dir.receipts.files ELSE <<>>
             paired == SelectSeq(contextFiles, LAMBDA c :
                          FindIncluding("expected", dir.expected.files, c) # NoFile)
         IN [i \in 1..Len(paired) |->
               [id |-> <<packId, paired[i]>>, packId |-> packId, contextName |-> paired[i],
                passport |-> loadJsonFile("passports", dir.passports.files[1]),
                context |-> loadJsonFile("contexts", paired[i]),
                expected |-> FindIncluding("expected", dir.expected.files, paired[i]),
                receipt |-> FindIncluding("receipts", receiptFiles, paired[i])]]

\* what readdirSync may list: up to n of the file names, in any order
Listings(n) ==
    UNION { {l \in [1..k -> FileNames] : \A i, j \in 1..k : l[i] = l[j] => i = j} : k \in 0..n }
Directory(listing) == [exists |-> TRUE, files |-> listing]
MissingDirectory == [exists |-> FALSE, files |-> <<>>]

LoaderInit ==
    /\ \E passports \in {MissingDirectory, Directory(<<>>),
                         Directory(<< <<"p", "a", "s", "s", "p", "o", "r", "t">> >>)},
          contexts \in Listings(MaxFiles), expected \in Listings(MaxFiles),
          receipts \in {MissingDirectory} \cup {Directory(l) : l \in Listings(1)} :
         packDir = [packId |-> "payments.refund.v1", passports |-> passports,
                    contexts |-> Directory(contexts), expected |-> Directory(expected),
                    receipts |-> receipts]
    /\ loaded = NoLoad
    /\ doc = None /\ docAlt = None /\ jcsOut = None /\ detOut = None
    /\ oap = None /\ oapKind = "none" /\ registryKey = None
    /\ exported = None /\ vc = None /\ call = NoCall
    /\ edMessage = None /\ edKeys = NoKeys /\ edSignature = None /\ edCall = NoCall
    /\ testCase = NoCase /\ clock = 0 /\ evaluation = NoEvaluation
    /\ subject = NoSubject /\ priorStatus = "none" /\ validation = <<>>
    /\ files = NoFiles /\ cliRun = NoCall
    /\ vp = None /\ vpOptions = NoCall /\ vpCall = NoCall
    /\ suite = <<>> /\ results = <<>> /\ run = NoRun /\ report = NoReport

\* const packCases = await this.loadPackTestCases(packDir, packId)
LoadPackTestCases ==
    /\ ~loaded.done
    /\ loaded' = [done |-> TRUE, cases |-> loadPackTestCases(packDir, packDir.packId)]
    /\ UNCHANGED packDir
    /\ UNCHANGED notLoader

LoaderNext == LoadPackTestCases
SpecLoader == LoaderInit /\ [][LoaderNext]_vars

\* C28: every loaded case pairs its context file with the expected file, and
\* the receipt file if any, of exactly the same base name.
C28_PairsBySameBaseName ==
    loaded.done
    => \A i \in 1..Len(loaded.cases) :
          /\ loaded.cases[i].expected.name = loaded.cases[i].contextName
          /\ loaded.cases[i].receipt # NoFile
             => loaded.cases[i].receipt.name = loaded.cases[i].contextName

SpecCodec == CodecInit /\ [][CodecNext]_vars
SpecEd == EdInit /\ [][EdNext]_vars
SpecPolicy == PolicyInit /\ [][PolicyNext]_vars

====
